---- MODULE Spec2Model ----
(***************************************************************************)
(* Model of the portfolio site's modal controller (src/js/modal.js) and    *)
(* pixel chart renderer (src/js/charts.js).                                *)
(*                                                                         *)
(* The page is a single-threaded browser document.  Every action below is  *)
(* one browser task: an exported function called by page code, or one      *)
(* listener run by a user event, followed by the microtask checkpoint      *)
(* (MutationObserver delivery) and the browser's focus fix-up.             *)
(***************************************************************************)
EXTENDS Integers, Sequences, FiniteSets, TLC

\* ------------------------------------------------------------------ bounds
\* Number of modals built by createModal during a run.
MaxDyn == 1
\* Number of focusable elements in a modal's body, besides its close button.
MaxContent == 1

\* --------------------------------------------------------------- documents
\* Owners of elements: the page itself, the static #stats-modal, and the
\* modals built by createModal.
PageOwner == 0
StatsModal == 1
DynModals == 2..(MaxDyn + 1)
Modals == {StatsModal} \cup DynModals

\* An element is <<owner, index>>.  <<PageOwner, 0>> is document.body; the
\* other page elements are two focusable buttons outside every modal.  In a
\* modal, index 0 is the .modal-close button and 1..n are the focusable
\* elements of the modal body, in document order.
Body == <<PageOwner, 0>>
PageButtons == << <<PageOwner, 1>>, <<PageOwner, 2>> >>
Null == <<0 - 1, 0>>
Undefined == <<0 - 1, 1>>
NoModal == 0

VARIABLES
    status,            \* modal -> "absent" | "attached" | "removed"
    hasClose,          \* modal -> it contains a .modal-close button
    hasOverlay,        \* modal -> it contains a .modal-overlay
    nContent,          \* modal -> number of focusable body elements
    observed,          \* modal -> a MutationObserver watches its hidden attribute
    hidden,            \* modal -> the hidden attribute is present
    ariaHidden,        \* modal -> value of aria-hidden ("unset", "true", "false")
    onCloseCalls,      \* modal -> number of calls of its onClose callback
    bodyOverflow,      \* document.body.style.overflow
    activeElement,     \* document.activeElement
    currentModal,      \* modal.js: let currentModal
    focusableElements, \* modal.js: let focusableElements
    firstFocusable,    \* modal.js: let firstFocusable
    lastFocusable,     \* modal.js: let lastFocusable
    previousFocus,     \* modal.js: let previousFocus
    threw,             \* an exception escaped from a function of modal.js
    pendingDefault,    \* the key whose default action the browser still owes
    lastOp,            \* history: the operation that produced this state
    recording,         \* history: whether this run keeps openedFrom
    openedFrom         \* history: modal -> activeElement when openModal was called on
                       \* it, while it has stayed rendered since

modalVars == <<status, hasClose, hasOverlay, nContent, observed, hidden, ariaHidden,
               onCloseCalls, bodyOverflow, activeElement, currentModal,
               focusableElements, firstFocusable, lastFocusable, previousFocus,
               threw, pendingDefault, lastOp, recording, openedFrom>>

VARIABLES
    hasContext,        \* canvas.getContext('2d') returns a context
    rectWidth,         \* canvas.getBoundingClientRect().width
    rectHeight,        \* canvas.getBoundingClientRect().height
    chartData,         \* the data of the last render: the points' values, in order
    bars,              \* the drawPixelBar calls of the last render: [x, y, width, height]
    fills,             \* the bars' fillRect calls of the last render
    hasCanvas,         \* the page has a #pixel-chart canvas
    devicePixelRatio,  \* window.devicePixelRatio (0 where the browser has none)
    ctxScale,          \* the scale of the transform of the context last drawn with
    barTheme,          \* the theme the colours of the last render were read under
    listeners,         \* the data held by each resize listener of initChart
    appended,          \* the canvases createVisualization has appended
    drawOp,            \* history: the chart function called last, [fn, surface]
    drawThrew          \* the chart function called last raised a TypeError

chartVars == <<hasContext, rectWidth, rectHeight, chartData, bars, fills, hasCanvas,
               devicePixelRatio, ctxScale, barTheme, listeners, appended, drawOp,
               drawThrew>>

VARIABLES
    sparkCanvas,       \* the canvas of the last renderSparkline: [width, height]
    sparkValues,       \* the values of the last renderSparkline
    sparkPoints        \* its points: the [x, y] each marker is centred on

sparkVars == <<sparkCanvas, sparkValues, sparkPoints>>

VARIABLES
    pageState,         \* "none": no such page; "loaded": before init(); "ready": after it
    variant,           \* the script of the page: "utils" (utils.js, projects-standalone.js)
                       \* or "projects" (the projects page script)
    hasGrid,           \* the page has a projects grid
    hasFilters,        \* the page has a filter container (with its static All button)
    projectsJson,      \* the resource data/projects.json: [kind, list]
    fetchState,        \* "none", "inFlight" or "done"
    fetchCount,        \* number of fetch calls since the page was loaded
    fetchOutcome,      \* history: how the fetch settled ("none" before it did)
    grid,              \* content of the grid: "initial", "cards", "empty" or "error"
    cards,             \* the .project-card elements, in document order
    filterBtns,        \* the .filter-btn elements: [tag, filter]
    filtersWired,      \* the filter buttons have their click listeners
    lastFilter         \* the filter button clicked last (the active one)

projectsVars == <<variant, hasGrid, hasFilters, projectsJson, fetchState, fetchCount,
                  fetchOutcome, grid, cards, filterBtns, filtersWired, lastFilter>>

VARIABLES
    hasToggle,         \* the page has a .theme-toggle
    themeKey,          \* localStorage.getItem('theme')
    dataTheme,         \* the data-theme attribute of the document element
    toggleWired,       \* the toggle has its click listener
    transitioning,     \* body has the class theme-transitioning
    themeTimers        \* pending 300ms timers of the toggle

themeVars == <<hasToggle, themeKey, dataTheme, toggleWired, transitioning, themeTimers>>

pageVars == <<pageState, projectsVars, themeVars>>

VARIABLES
    formVariant,       \* the script of the form: "main" (main.js), "form" (form.js),
                       \* "standalone" (standalone.js) or "none"
    hasStatus,         \* the form has a .form-status element
    fields,            \* the values of the name, email and message inputs
    fieldErrors,       \* the inputs that show an error
    statusText,        \* what .form-status shows: "", "success", "error" or "invalid"
    btnDisabled,       \* the submit button is disabled
    btnLabel,          \* the submit button's label: "Send" or "Sending"
    inFlight,          \* the requests (or mailto waits) pending: the number of
                       \* the submission and the label its handler will put back
    formTimers,        \* pending 5s timers that clear the status, each named by
                       \* the number of the submission that set it
    submits,           \* history: the number of submit events handled so far
    statusOwner,       \* history: the number of the submission that set the
                       \* status shown, 0 when it is empty
    overlapped,        \* history: a submit event was handled while an earlier
                       \* submission was in flight
    formOp             \* history: the last form event, [op, outcome, id]

formVars == <<formVariant, hasStatus, fields, fieldErrors, statusText, btnDisabled,
              btnLabel, inFlight, formTimers, submits, statusOwner, overlapped, formOp>>

VARIABLES
    delay,             \* the delay debounce was called with, in ticks of the clock
    now,               \* the clock
    timeoutId,         \* timeoutId of the closure: the id of the timer set last
    timers,            \* the pending timers: [id, due, args]
    lastCall,          \* history: time and arguments of the last call of the wrapper
    calledSince,       \* history: the wrapper was called since func last ran
    invoked            \* history: the last run of func, [at, args, callAt, callArgs]

debounceVars == <<delay, now, timeoutId, timers, lastCall, calledSince, invoked>>

VARIABLES
    cardScript,        \* the script whose createProjectCard is applied: "utils"
                       \* (utils.js, projects-standalone.js), "projects" or "none"
    cardProject,       \* the project record it is applied to
    cardMarkup         \* the insertions of project data in the card's markup, in
                       \* the order of the markup: [field, position, raw, text]

cardVars == <<cardScript, cardProject, cardMarkup>>

vars == <<modalVars, chartVars, sparkVars, pageVars, formVars, debounceVars, cardVars>>

\* What the functions of each module leave alone.
exceptModal == <<chartVars, sparkVars, pageVars, formVars, debounceVars, cardVars>>
exceptChart == <<modalVars, pageVars, formVars, debounceVars, cardVars>>
exceptPage == <<modalVars, chartVars, sparkVars, formVars, debounceVars, cardVars>>
exceptForm == <<modalVars, chartVars, sparkVars, pageVars, debounceVars, cardVars>>
exceptDebounce == <<modalVars, chartVars, sparkVars, pageVars, formVars, cardVars>>

\* The part of the state the modal code reads and writes, as one record, so
\* that the functions of modal.js compose as they do in the source.
Cur ==
    [status |-> status, hidden |-> hidden, ariaHidden |-> ariaHidden,
     onCloseCalls |-> onCloseCalls, bodyOverflow |-> bodyOverflow,
     activeElement |-> activeElement, currentModal |-> currentModal,
     focusableElements |-> focusableElements, firstFocusable |-> firstFocusable,
     lastFocusable |-> lastFocusable, previousFocus |-> previousFocus,
     observed |-> observed, threw |-> threw,
     mutated |-> {}, prevented |-> FALSE]

\* ------------------------------------------------------------ DOM helpers
\* The focusable descendants of modal m in document order: the close button
\* (in the header) and then the body's elements.
Descendants(m) ==
    (IF hasClose[m] THEN << <<m, 0>> >> ELSE << >>)
        \o [i \in 1..nContent[m] |-> <<m, i>>]

\* A modal is rendered when it is in the document without the hidden attribute.
Visible(s, m) == s.status[m] = "attached" /\ ~s.hidden[m]

\* An element can take focus when it is a page button or lies in a rendered modal.
CanFocus(s, e) ==
    \/ e[1] = PageOwner /\ e[2] \in 1..Len(PageButtons)
    \/ e[1] \in Modals /\ Visible(s, e[1])

\* element.focus(): a no-op on null-ish values is never called by the code;
\* on an element that cannot take focus the browser leaves focus where it is.
Focus(s, e) == IF CanFocus(s, e) THEN [s EXCEPT !.activeElement = e] ELSE s

\* element.setAttribute('hidden', '') / removeAttribute('hidden'), recording
\* the mutation for the observers.  Setting an attribute queues a record even
\* when it is already present; removing an absent attribute queues none.
SetHidden(s, m) ==
    [s EXCEPT !.hidden[m] = TRUE, !.mutated = @ \cup {m}]

RemoveHidden(s, m) ==
    IF s.hidden[m]
    THEN [s EXCEPT !.hidden[m] = FALSE, !.mutated = @ \cup {m}]
    ELSE s

\* ---------------------------------------------------------------- modal.js
\* getFocusableElements(container): the selector matches, filtered by
\* offsetParent !== null (null for every element of a modal not rendered).
getFocusableElements(s, m) ==
    IF Visible(s, m) THEN Descendants(m) ELSE << >>

\* Faulty variant of OpenFocus: the fallback to the first focusable element is lost.
OpenFocusNoFallback(s, m) ==
    IF hasClose[m] THEN Focus(s, <<m, 0>>) ELSE s

\* The focus step of openModal (lines 63-69).
OpenFocus(s, m) ==
    IF hasClose[m] THEN Focus(s, <<m, 0>>)
    ELSE IF s.firstFocusable # Undefined THEN Focus(s, s.firstFocusable)
    ELSE s

\* Faulty variant of openModal: while a modal is active, the active modal and
\* the cached focusable elements are kept instead of being replaced.
openModalKeepsActive(s, m) ==
    IF m = NoModal THEN s
    ELSE
    LET s1 == [s EXCEPT !.previousFocus = s.activeElement]
        keep == s.currentModal # NoModal
        s2 == [RemoveHidden(s1, m) EXCEPT !.currentModal = IF keep THEN @ ELSE m]
        s3 == [s2 EXCEPT !.bodyOverflow = "hidden"]
        fe == IF keep THEN s.focusableElements ELSE getFocusableElements(s3, m)
        s4 == [s3 EXCEPT !.focusableElements = fe,
                         !.firstFocusable = IF fe = << >> THEN Undefined ELSE fe[1],
                         !.lastFocusable = IF fe = << >> THEN Undefined ELSE fe[Len(fe)]]
        s5 == OpenFocus(s4, m)
    IN  [s5 EXCEPT !.ariaHidden[m] = "false"]

\* openModal(modal); modal is NoModal when the caller passes null.
openModal(s, m) ==
    IF m = NoModal THEN s
    ELSE
    LET s1 == [s EXCEPT !.previousFocus = s.activeElement]
        s2 == [RemoveHidden(s1, m) EXCEPT !.currentModal = m]
        s3 == [s2 EXCEPT !.bodyOverflow = "hidden"]
        fe == getFocusableElements(s3, m)
        s4 == [s3 EXCEPT !.focusableElements = fe,
                         !.firstFocusable = IF fe = << >> THEN Undefined ELSE fe[1],
                         !.lastFocusable = IF fe = << >> THEN Undefined ELSE fe[Len(fe)]]
        s5 == OpenFocus(s4, m)
    IN  [s5 EXCEPT !.ariaHidden[m] = "false"]

\* Faulty variant of RestoreFocus: the remembered element is not forgotten.
RestoreFocusKeepsPrevious(s) ==
    IF s.previousFocus # Null
    THEN Focus(s, s.previousFocus)
    ELSE s

\* The focus restoration of closeModal (lines 89-93).
RestoreFocus(s) ==
    IF s.previousFocus # Null
    THEN [Focus(s, s.previousFocus) EXCEPT !.previousFocus = Null]
    ELSE s

\* closeModal(modal); modal is NoModal when the caller passes null.
closeModal(s, m) ==
    IF m = NoModal THEN s
    ELSE
    LET s1 == [SetHidden(s, m) EXCEPT !.ariaHidden[m] = "true"]
        s2 == [s1 EXCEPT !.bodyOverflow = ""]
        s3 == RestoreFocus(s2)
    IN  [s3 EXCEPT !.currentModal = NoModal,
                   !.focusableElements = << >>,
                   !.firstFocusable = Null,
                   !.lastFocusable = Null]

\* Faulty variant of initModal: the check for a missing #stats-modal is
\* lost, and modal.querySelector on null throws a TypeError.
initModalUnguarded(s, m) ==
    IF m = NoModal THEN [s EXCEPT !.threw = TRUE]
    ELSE [s EXCEPT !.observed[m] = TRUE]

\* initModal(), m being what getElementById('stats-modal') returned.  The
\* click listeners are added to the close button and the overlay when the
\* modal has them, then the keydown listener and, in observeModalState, the
\* observer: observed[m] records that all of this wiring was done.
initModal(s, m) ==
    IF m = NoModal THEN s
    ELSE [s EXCEPT !.observed[m] = TRUE]

\* handleTabKey(e)
handleTabKey(s, shift) ==
    IF Len(s.focusableElements) = 0 THEN s
    ELSE IF shift
    THEN IF s.activeElement = s.firstFocusable
         THEN [Focus(s, s.lastFocusable) EXCEPT !.prevented = TRUE]
         ELSE s
    ELSE IF s.activeElement = s.lastFocusable
         THEN [Focus(s, s.firstFocusable) EXCEPT !.prevented = TRUE]
         ELSE s

\* Faulty variant of handleModalKeydown: the default of every handled key is prevented.
handleModalKeydownEager(s, key, shift) ==
    IF s.currentModal = NoModal THEN s
    ELSE IF key = "Escape"
    THEN closeModal([s EXCEPT !.prevented = TRUE], s.currentModal)
    ELSE [handleTabKey(s, shift) EXCEPT !.prevented = TRUE]

\* handleModalKeydown(e): the listener of every wired modal.  It acts on
\* currentModal, whichever modal the event was dispatched in.
handleModalKeydown(s, key, shift) ==
    IF s.currentModal = NoModal THEN s
    ELSE IF key = "Escape"
    THEN closeModal([s EXCEPT !.prevented = TRUE], s.currentModal)
    ELSE IF key = "Tab" THEN handleTabKey(s, shift)
    ELSE s

\* Faulty variant of ObserverCallback: the two branches are swapped.
ObserverCallbackInverted(s) ==
    LET hit == {m \in s.mutated : s.observed[m]}
    IN  IF hit = {} THEN [s EXCEPT !.mutated = {}]
        ELSE LET m == CHOOSE x \in hit : TRUE
             IN  [s EXCEPT !.mutated = {},
                           !.bodyOverflow = IF s.hidden[m] THEN "hidden" ELSE ""]

\* The MutationObserver callback of observeModalState(modal), run at the
\* microtask checkpoint once per queued record; it reads the attribute as it
\* is when the callback runs.
ObserverCallback(s) ==
    LET hit == {m \in s.mutated : s.observed[m]}
    IN  IF hit = {} THEN [s EXCEPT !.mutated = {}]
        ELSE LET m == CHOOSE x \in hit : TRUE
             IN  [s EXCEPT !.mutated = {},
                           !.bodyOverflow = IF s.hidden[m] THEN "" ELSE "hidden"]

\* The closeHandler closure of createModal (lines 225-229).
closeHandler(s, m) ==
    LET s1 == closeModal(s, m)
        s2 == [s1 EXCEPT !.onCloseCalls[m] = @ + 1]
    IN  [s2 EXCEPT !.status[m] = "removed"]

\* --------------------------------------------------------------- browser
\* Focus fix-up: an element that stops being rendered, or leaves the
\* document, loses focus to the body.
FocusFixup(s) ==
    IF s.activeElement[1] \in Modals /\ ~Visible(s, s.activeElement[1])
    THEN [s EXCEPT !.activeElement = Body]
    ELSE s

\* End of a task: deliver the observers' records, then fix the focus up.
EndTask(s) == FocusFixup(ObserverCallback(s))

\* Sequential focus navigation order of the document: the page buttons, then
\* the focusable elements of every rendered modal, in document order (the
\* static modal precedes the modals appended by createModal).
RECURSIVE ModalsTabOrder(_, _)
ModalsTabOrder(s, m) ==
    IF m \notin Modals THEN << >>
    ELSE getFocusableElements(s, m) \o ModalsTabOrder(s, m + 1)

TabOrder(s) == PageButtons \o ModalsTabOrder(s, StatsModal)

IndexOf(seq, e) == CHOOSE i \in 1..Len(seq) : seq[i] = e

\* The default action of Tab / Shift+Tab: focus moves to the next / previous
\* element of the navigation order, wrapping around at its ends.
TabDefault(s, shift) ==
    LET order == TabOrder(s)
        n == Len(order)
        here == s.activeElement
        inOrder == \E i \in 1..n : order[i] = here
        k == IF inOrder THEN IndexOf(order, here) ELSE 0
        next == IF shift
                THEN (IF k <= 1 THEN order[n] ELSE order[k - 1])
                ELSE (IF k = 0 \/ k = n THEN order[1] ELSE order[k + 1])
    IN  [s EXCEPT !.activeElement = next]

\* ---------------------------------------------------------------- actions
NoKey == [key |-> "none", shift |-> FALSE]

\* The history record of an operation: its name, the modal it was called on
\* or dispatched in, the key, and (filled in by Commit) whether the default
\* was prevented and whether modal m was rendered before the operation.
Op(name, m, key, shift) ==
    [op |-> name, m |-> m, key |-> key, shift |-> shift,
     prevented |-> FALSE, wasVisible |-> FALSE]

\* Write the record back to the variables.
Commit(s, op) ==
    /\ status' = s.status
    /\ hidden' = s.hidden
    /\ ariaHidden' = s.ariaHidden
    /\ onCloseCalls' = s.onCloseCalls
    /\ bodyOverflow' = s.bodyOverflow
    /\ activeElement' = s.activeElement
    /\ currentModal' = s.currentModal
    /\ focusableElements' = s.focusableElements
    /\ firstFocusable' = s.firstFocusable
    /\ lastFocusable' = s.lastFocusable
    /\ previousFocus' = s.previousFocus
    /\ observed' = s.observed
    /\ threw' = s.threw
    /\ lastOp' = [op EXCEPT !.prevented = s.prevented,
                             !.wasVisible = op.m \in Modals /\ Visible(Cur, op.m)]
    /\ recording' = recording
    /\ UNCHANGED exceptModal
    /\ openedFrom' = [m \in Modals |->
            IF ~Visible(s, m) THEN Null
            ELSE IF recording /\ op.op = "openModal" /\ op.m = m THEN activeElement
            ELSE openedFrom[m]]

Idle == pendingDefault = NoKey

\* Page code calls openModal(m) on a modal of the document, or on the null
\* that a lookup of a missing modal returned (m = NoModal).
OpenModal(m) ==
    /\ Idle
    /\ IF m = NoModal THEN TRUE ELSE status[m] = "attached"
    /\ Commit(EndTask(openModal(Cur, m)), Op("openModal", m, "none", FALSE))
    /\ UNCHANGED <<hasClose, hasOverlay, nContent, pendingDefault>>

\* Page code calls closeModal(m) on a modal of the document, or on null.
CloseModal(m) ==
    /\ Idle
    /\ IF m = NoModal THEN TRUE ELSE status[m] = "attached"
    /\ Commit(EndTask(closeModal(Cur, m)), Op("closeModal", m, "none", FALSE))
    /\ UNCHANGED <<hasClose, hasOverlay, nContent, pendingDefault>>

\* document.getElementById('stats-modal')
GetStatsModal == IF status[StatsModal] = "attached" THEN StatsModal ELSE NoModal

\* Page code calls initModal().
InitModal ==
    /\ Idle
    /\ Commit(EndTask(initModal(Cur, GetStatsModal)),
              Op("initModal", GetStatsModal, "none", FALSE))
    /\ UNCHANGED <<hasClose, hasOverlay, nContent, pendingDefault>>

\* The listeners of modal m are attached: by createModal for the modals it
\* builds, by initModal for #stats-modal.
Wired(m) == m \in DynModals \/ observed[m]

\* Page code calls createModal({title, content, onClose}); content holds n
\* focusable elements.  The new modal is appended hidden, with a close
\* button, an overlay and the keydown listener, and no observer.
CreateModal(m, n) ==
    /\ Idle
    /\ m \in DynModals
    /\ status[m] = "absent"
    /\ \A k \in DynModals : k < m => status[k] # "absent"
    /\ hasClose' = [hasClose EXCEPT ![m] = TRUE]
    /\ hasOverlay' = [hasOverlay EXCEPT ![m] = TRUE]
    /\ nContent' = [nContent EXCEPT ![m] = n]
    /\ Commit([Cur EXCEPT !.status[m] = "attached", !.hidden[m] = TRUE],
              Op("createModal", m, "none", FALSE))
    /\ UNCHANGED pendingDefault

\* A click on the close button (byOverlay = FALSE) or on the overlay of a
\* rendered modal.  The static modal's listeners (initModal) call closeModal;
\* a built modal's call closeHandler.  Whether the click itself moves focus
\* to the button depends on the browser.
Click(m, byOverlay, focusMoves) ==
    /\ Idle
    /\ Visible(Cur, m)
    /\ Wired(m)
    /\ IF byOverlay THEN hasOverlay[m] ELSE hasClose[m]
    /\ LET s0 == IF focusMoves /\ ~byOverlay THEN Focus(Cur, <<m, 0>>) ELSE Cur
           s1 == IF m = StatsModal THEN closeModal(s0, m) ELSE closeHandler(s0, m)
       IN  Commit(EndTask(s1),
                  Op(IF byOverlay THEN "overlayClick" ELSE "closeClick", m, "none", FALSE))
    /\ UNCHANGED <<hasClose, hasOverlay, nContent, pendingDefault>>

\* The modal whose keydown listener a key pressed now reaches: the one that
\* holds the focused element (the listeners are on the modal elements).
TargetModal == IF activeElement[1] \in Modals THEN activeElement[1] ELSE NoModal

\* The user presses Tab, Shift+Tab or Escape: the keydown listeners run.  The
\* browser's default action follows in KeyDefault unless it was prevented.
KeyDown(key, shift) ==
    /\ Idle
    /\ LET s1 == IF TargetModal # NoModal /\ Wired(TargetModal)
                 THEN handleModalKeydown(Cur, key, shift)
                 ELSE Cur
       IN  /\ Commit(EndTask(s1), Op("keydown", TargetModal, key, shift))
           /\ pendingDefault' = IF s1.prevented \/ key # "Tab" THEN NoKey
                                ELSE [key |-> key, shift |-> shift]
    /\ UNCHANGED <<hasClose, hasOverlay, nContent>>

\* The browser's default action for the key of the last keydown.
KeyDefault ==
    /\ ~Idle
    /\ Commit(TabDefault(Cur, pendingDefault.shift),
              Op("default", NoModal, pendingDefault.key, pendingDefault.shift))
    /\ pendingDefault' = NoKey
    /\ UNCHANGED <<hasClose, hasOverlay, nContent>>

\* Some script hides a modal by adding the hidden attribute itself, without
\* calling closeModal.
DirectHide(m) ==
    /\ Idle
    /\ status[m] = "attached"
    /\ Commit(EndTask(SetHidden(Cur, m)), Op("directHide", m, "none", FALSE))
    /\ UNCHANGED <<hasClose, hasOverlay, nContent, pendingDefault>>

\* ---------------------------------------------------------- JS numbers
\* A JavaScript number is kept exactly, as a fraction <<n, d>> in lowest
\* terms with d > 0; <<0, 0>> is NaN, <<1, 0>> is Infinity and <<0 - 1, 0>>
\* is -Infinity.
NaN == <<0, 0>>
Infinity == <<1, 0>>
NegInfinity == <<0 - 1, 0>>
Num(n) == <<n, 1>>

Abs(n) == IF n < 0 THEN 0 - n ELSE n
Sign(n) == IF n < 0 THEN 0 - 1 ELSE IF n > 0 THEN 1 ELSE 0

RECURSIVE GCD(_, _)
GCD(a, b) == IF b = 0 THEN a ELSE GCD(b, a % b)

\* The number n / d for integers n, d: 0/0 is NaN and n/0 is +-Infinity.
Frac(n, d) ==
    IF d = 0 THEN <<Sign(n), 0>>
    ELSE LET g == GCD(Abs(n), Abs(d))
         IN  <<(Sign(d) * n) \div g, Abs(d) \div g>>

IsNaN(a) == a = NaN
IsFinite(a) == a[2] # 0

JsDiv(a, b) ==
    IF IsNaN(a) \/ IsNaN(b) THEN NaN
    ELSE IF ~IsFinite(a) /\ ~IsFinite(b) THEN NaN
    ELSE IF ~IsFinite(b) THEN Num(0)
    ELSE IF ~IsFinite(a) THEN <<a[1] * (IF b[1] < 0 THEN 0 - 1 ELSE 1), 0>>
    ELSE Frac(a[1] * b[2], a[2] * b[1])

JsMul(a, b) == Frac(a[1] * b[1], a[2] * b[2])

JsAdd(a, b) ==
    IF IsNaN(a) \/ IsNaN(b) THEN NaN
    ELSE IF ~IsFinite(a) /\ ~IsFinite(b) THEN (IF a = b THEN a ELSE NaN)
    ELSE IF ~IsFinite(a) THEN a
    ELSE IF ~IsFinite(b) THEN b
    ELSE Frac(a[1] * b[2] + b[1] * a[2], a[2] * b[2])

JsNeg(a) == <<0 - a[1], a[2]>>
JsSub(a, b) == JsAdd(a, JsNeg(b))

\* a < b; false whenever either is NaN.
JsLess(a, b) ==
    IF IsNaN(a) \/ IsNaN(b) THEN FALSE
    ELSE IF ~IsFinite(a) THEN a = NegInfinity /\ b # NegInfinity
    ELSE IF ~IsFinite(b) THEN b = Infinity
    ELSE a[1] * b[2] < b[1] * a[2]

\* Math.floor
MathFloor(a) == IF IsFinite(a) THEN Num(a[1] \div a[2]) ELSE a

\* Math.max(...values): -Infinity for no argument, NaN if any argument is.
RECURSIVE MathMax(_)
MathMax(values) ==
    IF values = << >> THEN NegInfinity
    ELSE LET h == values[1]
             r == MathMax(Tail(values))
         IN  IF IsNaN(h) \/ IsNaN(r) THEN NaN
             ELSE IF JsLess(h, r) THEN r ELSE h

\* ---------------------------------------------------------------- charts.js
\* const padding = 40 of renderPixelBarChart.
ChartPadding == 40

\* The sizes the canvas is displayed at (getBoundingClientRect); a canvas
\* lower or narrower than twice the padding leaves a plot of negative height
\* or width.
RectWidths == {60, 330}
RectHeights == {60, 100}
\* The data values and the number of points of a data sequence.
MaxValue == 3
MaxPoints == 2

DataSequences == UNION {[1..n -> 0..MaxValue] : n \in 1..MaxPoints}

\* Faulty variant of BarHeight: the quotient is taken the wrong way round.
BarHeightInverted(value, maxValue, chartHeight) ==
    JsMul(JsDiv(maxValue, value), chartHeight)

\* const barHeight = (item.value / maxValue) * chartHeight  (line 88)
BarHeight(value, maxValue, chartHeight) ==
    JsMul(JsDiv(value, maxValue), chartHeight)

\* Faulty variant of BarX: the bars are packed without their padding.
BarXPacked(index, barWidth, barPadding, padding) ==
    JsAdd(JsAdd(padding, JsMul(Num(index), JsSub(barWidth, barPadding))),
          JsDiv(barPadding, Num(2)))

\* const x = padding + index * barWidth + barPadding / 2  (line 89)
BarX(index, barWidth, barPadding, padding) ==
    JsAdd(JsAdd(padding, JsMul(Num(index), barWidth)), JsDiv(barPadding, Num(2)))

\* The drawPixelBar calls of renderPixelBarChart(canvas, data) on a canvas
\* displayed at width x height (lines 57-93).
BarCalls(data, width, height) ==
    LET padding == Num(ChartPadding)
        chartWidth == JsSub(Num(width), JsMul(padding, Num(2)))
        chartHeight == JsSub(Num(height), JsMul(padding, Num(2)))
        maxValue == MathMax([i \in 1..Len(data) |-> Num(data[i])])
        barWidth == JsDiv(chartWidth, Num(Len(data)))
        barPadding == JsMul(barWidth, Frac(2, 10))
        actualBarWidth == JsSub(barWidth, barPadding)
    IN  [i \in 1..Len(data) |->
            LET barHeight == BarHeight(Num(data[i]), maxValue, chartHeight)
                x == BarX(i - 1, barWidth, barPadding, padding)
                y == JsSub(JsAdd(padding, chartHeight), barHeight)
            IN  [x |-> x, y |-> y, width |-> actualBarWidth, height |-> barHeight]]

\* The first fillRect of drawPixelBar(ctx, x, y, width, height, ..) (line 127).
drawPixelBar(b) ==
    [x |-> MathFloor(b.x), y |-> MathFloor(b.y),
     width |-> MathFloor(b.width), height |-> MathFloor(b.height)]

\* a || b on numbers: 0 and NaN are falsy.
JsOr(a, b) == IF a = Num(0) \/ IsNaN(a) THEN b ELSE a

\* The state the chart functions read and write: the canvases, the window
\* and what was drawn last.
CurChart ==
    [hasContext |-> hasContext, rectWidth |-> rectWidth, rectHeight |-> rectHeight,
     chartData |-> chartData, bars |-> bars, fills |-> fills, hasCanvas |-> hasCanvas,
     devicePixelRatio |-> devicePixelRatio, ctxScale |-> ctxScale,
     barTheme |-> barTheme, listeners |-> listeners, appended |-> appended,
     drawThrew |-> FALSE, sparkCanvas |-> sparkCanvas,
     sparkValues |-> sparkValues, sparkPoints |-> sparkPoints]

\* Faulty variant of SetCanvasSize: the transform survives the assignment.
SetCanvasSizeKeepsTransform(scale) == scale

\* canvas.width = ..; canvas.height = ..  (lines 52-53): assigning a canvas
\* dimension resets the context, its transform included, to the default.
SetCanvasSize(scale) == Num(1)

\* renderPixelBarChart(canvas, data), canvas being an element (TRUE) or
\* null (FALSE): getContext of null is a TypeError; nothing is drawn
\* without a context.
renderPixelBarChart(s, canvas, data) ==
    IF ~canvas THEN [s EXCEPT !.drawThrew = TRUE]
    ELSE IF ~s.hasContext THEN [s EXCEPT !.chartData = data]
    ELSE LET dpr == JsOr(Num(s.devicePixelRatio), Num(1))
             calls == BarCalls(data, s.rectWidth, s.rectHeight)
         IN  [s EXCEPT !.chartData = data,
                       !.ctxScale = JsMul(SetCanvasSize(@), dpr),
                       !.barTheme = dataTheme,
                       !.bars = calls,
                       !.fills = [i \in 1..Len(calls) |-> drawPixelBar(calls[i])]]

\* initChart(), with the data generateSampleData() returned.
initChart(s, data) ==
    IF ~s.hasCanvas THEN s
    ELSE [renderPixelBarChart(s, TRUE, data) EXCEPT !.listeners = Append(@, data)]

\* The resize listeners of initChart, run in order of registration.
RECURSIVE RunListeners(_, _)
RunListeners(s, k) ==
    IF k > Len(s.listeners) THEN s
    ELSE RunListeners(renderPixelBarChart(s, TRUE, s.listeners[k]), k + 1)

\* Math.min(...values): Infinity for no argument, NaN if any argument is.
RECURSIVE MathMin(_)
MathMin(values) ==
    IF values = << >> THEN Infinity
    ELSE LET h == values[1]
             r == MathMin(Tail(values))
         IN  IF IsNaN(h) \/ IsNaN(r) THEN NaN
             ELSE IF JsLess(r, h) THEN r ELSE h

\* const padding = 4 of renderSparkline.
SparkPadding == 4

\* The canvas sizes and the values a sparkline is rendered from.
SparkWidths == {100, 400}
SparkHeights == {30, 200}
SparkValues == {0, 1, 2}
MaxSparkPoints == 3
SparkSequences == UNION {[1..n -> SparkValues] : n \in 1..MaxSparkPoints}

Nums(values) == [i \in 1..Len(values) |-> Num(values[i])]

\* Faulty variant of SparkRange: a range of 0 is not replaced.
SparkRangeUnguarded(values) ==
    JsSub(MathMax(Nums(values)), MathMin(Nums(values)))

\* const range = maxValue - minValue || 1  (lines 207-209)
SparkRange(values) ==
    JsOr(JsSub(MathMax(Nums(values)), MathMin(Nums(values))), Num(1))

\* The points of renderSparkline(canvas, values) on a canvas of
\* width x height (lines 200-237).
SparkPointsOf(values, width, height) ==
    LET padding == Num(SparkPadding)
        minValue == MathMin(Nums(values))
        range == SparkRange(values)
        stepX == JsDiv(JsSub(Num(width), JsMul(padding, Num(2))),
                       Num(Len(values) - 1))
    IN  [i \in 1..Len(values) |->
            [x |-> JsAdd(padding, JsMul(Num(i - 1), stepX)),
             y |-> JsSub(JsSub(Num(height), padding),
                         JsMul(JsDiv(JsSub(Num(values[i]), minValue), range),
                               JsSub(Num(height), JsMul(padding, Num(2)))))]]

\* renderSparkline(canvas, values, color) on a canvas of width x height
\* whose getContext gives a context or not, or on null (canvas FALSE):
\* getContext of null is a TypeError; nothing is drawn without a context.
renderSparkline(s, canvas, values, width, height, ctx) ==
    IF ~canvas THEN [s EXCEPT !.drawThrew = TRUE]
    ELSE IF ~ctx THEN s
    ELSE [s EXCEPT !.sparkCanvas = [width |-> width, height |-> height],
                   !.sparkValues = values,
                   !.sparkPoints = SparkPointsOf(values, width, height)]

\* createVisualization(containerId, data, options) for a bar chart: the new
\* canvas, once appended, is laid out at width x height.
createBarVisualization(s, container, data, width, height) ==
    IF ~container THEN s
    ELSE renderPixelBarChart([s EXCEPT !.appended = @ + 1,
                                       !.rectWidth = width,
                                       !.rectHeight = height,
                                       !.ctxScale = Num(1)],
                             TRUE, data)

\* createVisualization(containerId, values, {type: 'sparkline', width,
\* height}): the canvas has the size the options give.
createSparkVisualization(s, container, values, width, height) ==
    IF ~container THEN s
    ELSE renderSparkline([s EXCEPT !.appended = @ + 1],
                         TRUE, values, width, height, s.hasContext)

CommitChart(s, fn, surface) ==
    /\ hasContext' = s.hasContext
    /\ rectWidth' = s.rectWidth
    /\ rectHeight' = s.rectHeight
    /\ chartData' = s.chartData
    /\ bars' = s.bars
    /\ fills' = s.fills
    /\ hasCanvas' = s.hasCanvas
    /\ devicePixelRatio' = s.devicePixelRatio
    /\ ctxScale' = s.ctxScale
    /\ barTheme' = s.barTheme
    /\ listeners' = s.listeners
    /\ appended' = s.appended
    /\ drawThrew' = s.drawThrew
    /\ sparkCanvas' = s.sparkCanvas
    /\ sparkValues' = s.sparkValues
    /\ sparkPoints' = s.sparkPoints
    /\ drawOp' = [fn |-> fn, surface |-> surface]
    /\ UNCHANGED exceptChart

\* The surface a chart function is given.
Surface(present, ctx) ==
    IF ~present THEN "absent" ELSE IF ~ctx THEN "noContext" ELSE "ok"

\* Appended canvases a run keeps track of.
MaxAppended == 1

\* The values generateSampleData() draws, Math.floor(Math.random() * 80) + 20,
\* at their extremes, for a year of MaxPoints months.
SampleValues == {20, 99}
SampleSequences == [1..MaxPoints -> SampleValues]

\* The pixel densities of the window; 0 stands for none.
PixelRatios == {0, 1, 2}

\* Page code renders a chart from any data on the canvas it has.
RenderPixelBarChart(canvas, data) ==
    CommitChart(renderPixelBarChart(CurChart, canvas, data), "renderPixelBarChart",
                Surface(canvas, hasContext))

Render == \E data \in DataSequences : RenderPixelBarChart(TRUE, data)

\* initChart() runs, once, called by the page's init().
CallInitChart ==
    /\ listeners = << >>
    /\ \E data \in SampleSequences :
        CommitChart(initChart(CurChart, data), "initChart", Surface(hasCanvas, hasContext))

\* A resize event: the canvas is now displayed at width x height on a screen
\* of density ratio, and every resize listener of initChart renders its
\* data again (lines 22-24).
ResizeTo(width, height, ratio) ==
    /\ listeners # << >>
    /\ CommitChart(RunListeners([CurChart EXCEPT !.rectWidth = width,
                                                 !.rectHeight = height,
                                                 !.devicePixelRatio = ratio], 1),
                   "resize", Surface(TRUE, hasContext))

\* The window is resized.
Resize == \E w \in RectWidths, h \in RectHeights : ResizeTo(w, h, devicePixelRatio)

\* The page is zoomed or moved to a screen of another density.
Rescale == \E r \in PixelRatios : ResizeTo(rectWidth, rectHeight, r)

\* Page code renders a sparkline from any values on any canvas, or on the
\* result of a failed element lookup.
RenderSparkline(canvas, values, width, height, ctx) ==
    CommitChart(renderSparkline(CurChart, canvas, values, width, height, ctx),
                "renderSparkline", Surface(canvas, ctx))

\* Page code calls createVisualization for a bar chart or for a sparkline,
\* with the id of a container the page has or not.
CreateBarVisualization(container, data) ==
    /\ appended < MaxAppended
    /\ \E w \in RectWidths, h \in RectHeights :
        CommitChart(createBarVisualization(CurChart, container, data, w, h),
                    "createVisualization", Surface(container, hasContext))

CreateSparkVisualization(container, values) ==
    /\ appended < MaxAppended
    /\ \E w \in SparkWidths, h \in SparkHeights :
        CommitChart(createSparkVisualization(CurChart, container, values, w, h),
                    "createVisualization", Surface(container, hasContext))

NextSpark ==
    \E values \in SparkSequences, w \in SparkWidths, h \in SparkHeights, ctx \in BOOLEAN :
        RenderSparkline(TRUE, values, w, h, ctx)

\* No sparkline on the page.
SparkIdle ==
    /\ sparkCanvas = [width |-> 0, height |-> 0]
    /\ sparkValues = << >>
    /\ sparkPoints = << >>

\* ------------------------------------------------------------- strings
\* A string is the sequence of its characters.
All == <<"a", "l", "l">>
Comma == ","

\* array.join(',')
RECURSIVE JoinComma(_)
JoinComma(list) ==
    IF list = << >> THEN << >>
    ELSE IF Len(list) = 1 THEN list[1]
    ELSE list[1] \o <<Comma>> \o JoinComma(Tail(list))

\* string.split(',')
RECURSIVE SplitComma(_)
SplitComma(s) ==
    IF \A i \in 1..Len(s) : s[i] # Comma THEN <<s>>
    ELSE LET i == CHOOSE k \in 1..Len(s) :
                    s[k] = Comma /\ \A j \in 1..(k - 1) : s[j] # Comma
         IN  <<SubSeq(s, 1, i - 1)>> \o SplitComma(SubSeq(s, i + 1, Len(s)))

\* string.toLowerCase()
ToLowerCase(s) ==
    [i \in 1..Len(s) |-> IF s[i] = "A" THEN "a" ELSE IF s[i] = "B" THEN "b" ELSE s[i]]

\* array.includes(x)
Includes(list, x) == \E i \in 1..Len(list) : list[i] = x

\* ------------------------------------------------- projects: load and render
\* The optional fields of a project record.
OptionalFields == {"image", "video", "featured", "status", "links"}

\* createProjectCard(project): the card, or an exception.  A record is
\* [title, tags, omits]: omits holds the optional fields it leaves out; a
\* field that is present is truthy (a non-empty string or list, true,
\* 'coming-soon').
createProjectCard(v, project) ==
    IF v = "utils"
    THEN [threw |-> "links" \in project.omits,
          card |-> [title |-> project.title,
                    dataTags |-> JoinComma(project.tags),
                    shown |-> TRUE,
                    parts |-> {"image", "links"} \ project.omits]]
    ELSE [threw |-> FALSE,
          card |-> [title |-> project.title,
                    dataTags |-> ToLowerCase(JoinComma(project.tags)),
                    shown |-> TRUE,
                    parts |-> ({"featured", "status", "video", "links"} \ project.omits)
                              \cup (IF "video" \in project.omits
                                    THEN {"image"} \ project.omits ELSE {})]]

\* The page state the project functions read and write, as one record.
CurProjects ==
    [grid |-> grid, cards |-> cards, filterBtns |-> filterBtns,
     filtersWired |-> filtersWired, threw |-> FALSE]

\* A TypeError (or the Error of a non-OK response) is thrown.
Throw(s) == [s EXCEPT !.threw = TRUE]

\* renderProjects(projects), projects being what response.json() gave: a
\* list of project records (kind "list") or some other value, such as an
\* object or a list whose records have no tags (kind "object").
renderProjects(s, v, json) ==
    IF ~hasGrid THEN s
    ELSE IF json.kind # "list" THEN Throw(s)
    ELSE IF v = "projects" /\ json.list = << >>
    THEN [s EXCEPT !.grid = "empty", !.cards = << >>]
    ELSE LET made == [i \in 1..Len(json.list) |-> createProjectCard(v, json.list[i])]
         IN  IF \E i \in 1..Len(made) : made[i].threw THEN Throw(s)
             ELSE [s EXCEPT !.grid = "cards",
                            !.cards = [i \in 1..Len(made) |-> made[i].card]]

\* setupProjectFilters(projects) / setupFilters(projects): one button per
\* distinct tag, listeners on every filter button.
setupProjectFilters(s, v, json) ==
    IF json.kind # "list" THEN Throw(s)
    ELSE IF ~hasFilters THEN s
    ELSE LET allTags == UNION {{json.list[i].tags[k] : k \in 1..Len(json.list[i].tags)} :
                               i \in 1..Len(json.list)}
             made == {[tag |-> tag,
                       filter |-> IF v = "projects" THEN ToLowerCase(tag) ELSE tag] :
                      tag \in allTags}
         IN  [s EXCEPT !.filterBtns = @ \cup made, !.filtersWired = TRUE]

\* showProjectsError() / showError(grid)
showProjectsError(s) ==
    IF ~hasGrid THEN s
    ELSE [s EXCEPT !.grid = "error", !.cards = << >>]

\* Faulty variant of loadProjectsDone: the error message is not shown.
loadProjectsDoneSilent(s, v, outcome, json) ==
    IF outcome # "ok" \/ json.kind = "invalid" THEN s
    ELSE LET s1 == renderProjects(s, v, json)
             s2 == IF s1.threw THEN s1 ELSE setupProjectFilters(s1, v, json)
         IN  IF s2.threw THEN [s2 EXCEPT !.threw = FALSE] ELSE s2

\* loadProjects() from the point where the fetch settles: outcome is
\* "networkError" (fetch rejects), "notOk" or "ok"; an exception thrown
\* anywhere in the try block is caught and the error message shown.
loadProjectsDone(s, v, outcome, json) ==
    IF outcome # "ok" \/ json.kind = "invalid" THEN showProjectsError(s)
    ELSE LET s1 == renderProjects(s, v, json)
             s2 == IF s1.threw THEN s1 ELSE setupProjectFilters(s1, v, json)
         IN  IF s2.threw THEN showProjectsError([s2 EXCEPT !.threw = FALSE]) ELSE s2

\* filterProjects(tag): the cards after the call.
filterProjects(cs, filter) ==
    [i \in 1..Len(cs) |->
        [cs[i] EXCEPT !.shown = filter = All \/ Includes(SplitComma(cs[i].dataTags), filter)]]

\* --------------------------------------------------------- theme toggle
\* null: no such key in localStorage, no such attribute.
NoValue == "null"

CurTheme ==
    [themeKey |-> themeKey, dataTheme |-> dataTheme, toggleWired |-> toggleWired,
     transitioning |-> transitioning, themeTimers |-> themeTimers]

\* initThemeToggle() / setupThemeToggle()
initThemeToggle(s) ==
    IF ~hasToggle THEN s
    ELSE [s EXCEPT !.dataTheme = IF s.themeKey # NoValue THEN s.themeKey ELSE @,
                   !.toggleWired = TRUE]

\* Faulty variant of themeToggleClick: the key is kept when the theme goes
\* back to the default.
themeToggleClickKeepsKey(s) ==
    LET s1 == [s EXCEPT !.transitioning = TRUE, !.themeTimers = @ + 1]
    IN  IF s.dataTheme = "cream"
        THEN [s1 EXCEPT !.dataTheme = NoValue]
        ELSE [s1 EXCEPT !.dataTheme = "cream", !.themeKey = "cream"]

\* The click listener of the theme toggle.
themeToggleClick(s) ==
    LET s1 == [s EXCEPT !.transitioning = TRUE, !.themeTimers = @ + 1]
    IN  IF s.dataTheme = "cream"
        THEN [s1 EXCEPT !.dataTheme = NoValue, !.themeKey = NoValue]
        ELSE [s1 EXCEPT !.dataTheme = "cream", !.themeKey = "cream"]

CommitTheme(s) ==
    /\ themeKey' = s.themeKey
    /\ dataTheme' = s.dataTheme
    /\ toggleWired' = s.toggleWired
    /\ transitioning' = s.transitioning
    /\ themeTimers' = s.themeTimers
    /\ UNCHANGED hasToggle

CommitProjects(s) ==
    /\ grid' = s.grid
    /\ cards' = s.cards
    /\ filterBtns' = s.filterBtns
    /\ filtersWired' = s.filtersWired
    /\ UNCHANGED <<variant, hasGrid, hasFilters, projectsJson>>

\* ----------------------------------------------------------- page events
\* Pending timers of the theme toggle that a run keeps track of.
MaxThemeTimers == 1

\* init() of the page script: loadProjects() up to its fetch (the projects
\* page script does not fetch without a grid), then the theme toggle.
PageInit ==
    /\ pageState = "loaded"
    /\ pageState' = "ready"
    /\ IF variant = "projects" /\ ~hasGrid
       THEN UNCHANGED <<fetchState, fetchCount>>
       ELSE fetchState' = "inFlight" /\ fetchCount' = fetchCount + 1
    /\ UNCHANGED fetchOutcome
    /\ CommitTheme(initThemeToggle(CurTheme))
    /\ CommitProjects(CurProjects)
    /\ UNCHANGED lastFilter
    /\ UNCHANGED exceptPage

\* The fetch of loadProjects settles and the rest of loadProjects runs.
FetchDone(outcome) ==
    /\ fetchState = "inFlight"
    /\ fetchState' = "done"
    /\ fetchOutcome' = outcome
    /\ CommitProjects(loadProjectsDone(CurProjects, variant, outcome, projectsJson))
    /\ UNCHANGED <<pageState, fetchCount, lastFilter, themeVars>>
    /\ UNCHANGED exceptPage

\* A click on a filter button that has its listener.
FilterClick(btn) ==
    /\ pageState = "ready"
    /\ filtersWired
    /\ btn \in filterBtns
    /\ cards' = filterProjects(cards, btn.filter)
    /\ lastFilter' = btn
    /\ UNCHANGED <<pageState, variant, hasGrid, hasFilters, projectsJson, fetchState,
                   fetchCount, fetchOutcome, grid, filterBtns, filtersWired, themeVars>>
    /\ UNCHANGED exceptPage

\* A click on the theme toggle.
ThemeClick ==
    /\ toggleWired
    /\ themeTimers < MaxThemeTimers
    /\ CommitTheme(themeToggleClick(CurTheme))
    /\ UNCHANGED <<pageState, projectsVars>>
    /\ UNCHANGED exceptPage

\* A 300ms timer of the toggle fires.
ThemeTimer ==
    /\ themeTimers > 0
    /\ CommitTheme([CurTheme EXCEPT !.transitioning = FALSE, !.themeTimers = @ - 1])
    /\ UNCHANGED <<pageState, projectsVars>>
    /\ UNCHANGED exceptPage

NoFilter == [tag |-> << >>, filter |-> << >>]
StaticButtons == IF hasFilters THEN {[tag |-> All, filter |-> All]} ELSE {}

\* The document as the markup gives it, before any script ran.
DocumentFresh ==
    /\ fetchState = "none"
    /\ fetchCount = 0
    /\ fetchOutcome = "none"
    /\ grid = "initial"
    /\ cards = << >>
    /\ filterBtns = StaticButtons
    /\ filtersWired = FALSE
    /\ lastFilter = NoFilter
    /\ dataTheme = NoValue
    /\ toggleWired = FALSE
    /\ transitioning = FALSE
    /\ themeTimers = 0

\* The user reloads the page: a fresh document, the same localStorage.
Reload ==
    /\ pageState = "ready"
    /\ pageState' = "loaded"
    /\ fetchState' = "none"
    /\ fetchCount' = 0
    /\ fetchOutcome' = "none"
    /\ grid' = "initial"
    /\ cards' = << >>
    /\ filterBtns' = StaticButtons
    /\ filtersWired' = FALSE
    /\ lastFilter' = NoFilter
    /\ dataTheme' = NoValue
    /\ toggleWired' = FALSE
    /\ transitioning' = FALSE
    /\ themeTimers' = 0
    /\ UNCHANGED <<variant, hasGrid, hasFilters, projectsJson, hasToggle, themeKey>>
    /\ UNCHANGED exceptPage

NextProjects ==
    \/ PageInit
    \/ \E outcome \in {"networkError", "notOk", "ok"} : FetchDone(outcome)
    \/ \E btn \in filterBtns : FilterClick(btn)

NextTheme == ThemeClick \/ ThemeTimer \/ Reload

\* Project lists: records numbered in list order, with tags from tagLists
\* and omitted optional fields from omitChoices.
MaxProjects == 2
ListsOf(tagLists, omitChoices) ==
    UNION {{[i \in 1..n |-> [title |-> i, tags |-> f[i][1], omits |-> f[i][2]]] :
                f \in [1..n -> tagLists \X omitChoices]} : n \in 0..MaxProjects}

TagA == <<"a">>
TagB == <<"b">>
TagUpperA == <<"A">>
TagAB == <<"a", Comma, "b">>
TagLists == {<< >>, <<TagA>>, <<TagB>>, <<TagUpperA>>, <<TagAB>>, <<TagA, TagB>>}
OmitChoices == {{}} \cup {{f} : f \in OptionalFields} \cup {OptionalFields}

\* What data/projects.json may hold when pages are loaded and themed.
LoadPayloads ==
    {[kind |-> "invalid", list |-> << >>], [kind |-> "object", list |-> << >>]}
    \cup {[kind |-> "list", list |-> l] : l \in ListsOf({<<TagA>>}, OmitChoices)}

\* What it may hold when projects are filtered: every optional field given.
FilterPayloads == {[kind |-> "list", list |-> l] : l \in ListsOf(TagLists, {{}})}

\* No projects page.
PageIdle ==
    /\ pageState = "none"
    /\ variant = "utils"
    /\ hasGrid = FALSE
    /\ hasFilters = FALSE
    /\ projectsJson = [kind |-> "invalid", list |-> << >>]
    /\ hasToggle = FALSE
    /\ themeKey = NoValue
    /\ DocumentFresh

\* --------------------------------------------------------- contact form
FieldNames == {"name", "email", "message"}
Space == " "

\* string.trim()
RECURSIVE Trim(_)
Trim(s) ==
    IF s = << >> THEN s
    ELSE IF s[1] = Space THEN Trim(Tail(s))
    ELSE IF s[Len(s)] = Space THEN Trim(SubSeq(s, 1, Len(s) - 1))
    ELSE s

\* /^[^\s@]+@[^\s@]+\.[^\s@]+$/.test(email)
IsValidEmail(s) ==
    /\ \A i \in 1..Len(s) : s[i] # Space
    /\ \E i \in 2..Len(s) :
        /\ s[i] = "@"
        /\ \A k \in 1..Len(s) : s[k] = "@" => k = i
        /\ \E j \in (i + 2)..(Len(s) - 1) : s[j] = "."

\* validateField(field) of main.js and form.js, for the required fields
\* name, email (type email) and message: whether the field passes.
validateField(v, name, raw) ==
    LET value == Trim(raw)
    IN  IF value = << >> THEN FALSE
        ELSE IF name = "email" THEN IsValidEmail(value)
        ELSE IF name = "message" THEN Len(value) >= 10
        ELSE IF name = "name" /\ v = "form" THEN Len(value) >= 2
        ELSE TRUE

\* The checks in the submit listener of standalone.js.
standaloneValid(name, raw) ==
    LET value == Trim(raw)
    IN  IF value = << >> THEN FALSE
        ELSE IF name = "email" THEN IsValidEmail(value)
        ELSE TRUE

FieldValid(v, name, raw) ==
    IF v = "standalone" THEN standaloneValid(name, raw) ELSE validateField(v, name, raw)

CurForm ==
    [fields |-> fields, fieldErrors |-> fieldErrors, statusText |-> statusText,
     btnDisabled |-> btnDisabled, btnLabel |-> btnLabel, inFlight |-> inFlight,
     formTimers |-> formTimers, submits |-> submits, statusOwner |-> statusOwner,
     overlapped |-> overlapped]

\* statusDiv.textContent = ''
ClearStatus(s) == [s EXCEPT !.statusText = "", !.statusOwner = 0]

\* showFormStatus(form, message, type) of main.js and form.js, called by
\* submission id.
showFormStatus(s, kind, id) ==
    IF ~hasStatus THEN s
    ELSE [s EXCEPT !.statusText = kind,
                   !.statusOwner = id,
                   !.formTimers = IF kind = "success" THEN @ \cup {id} ELSE @]

\* The submit listener up to its await: validation, then the button is
\* disabled and the request sent (a mailto navigation and a 100ms wait in
\* form.js).  standalone.js dereferences .form-status unguarded: without
\* the element the listener ends in a TypeError before anything else.
handleFormSubmit(s, v) ==
    LET id == s.submits + 1
        s0 == [s EXCEPT !.submits = id, !.overlapped = @ \/ s.inFlight # << >>]
        bad == {n \in FieldNames : ~FieldValid(v, n, s.fields[n])}
        s1 == IF v = "main" /\ hasStatus THEN ClearStatus(s0)
              ELSE IF v = "standalone" THEN ClearStatus(s0)
              ELSE s0
        s2 == [s1 EXCEPT !.fieldErrors = bad]
    IN  IF v = "standalone" /\ ~hasStatus THEN [s0 EXCEPT !.fieldErrors = {}]
        ELSE IF bad # {}
        THEN (IF v = "standalone" THEN s2 ELSE showFormStatus(s2, "invalid", id))
        ELSE [s2 EXCEPT !.btnDisabled = TRUE,
                        !.btnLabel = "Sending",
                        !.inFlight = Append(@, [id |-> id, label |-> s.btnLabel])]

\* The status shown when the request of submission id has settled: try and
\* catch.
SettledStatus(s, v, outcome, id) ==
    LET kind == IF outcome = "ok" THEN "success" ELSE "error"
    IN  IF v = "standalone" THEN [s EXCEPT !.statusText = kind, !.statusOwner = id]
        ELSE showFormStatus(s, kind, id)

\* Faulty variant of handleFormSettled: the button is not restored after a
\* failure.
handleFormSettledStuck(s, v, k, outcome) ==
    LET id == s.inFlight[k].id
        s1 == SettledStatus(s, v, outcome, id)
        s2 == IF outcome = "ok"
              THEN [s1 EXCEPT !.fields = [n \in FieldNames |-> << >>]]
              ELSE s1
        s3 == IF outcome = "ok"
              THEN [s2 EXCEPT !.btnDisabled = FALSE, !.btnLabel = s.inFlight[k].label]
              ELSE s2
        s4 == IF v = "standalone" THEN [s3 EXCEPT !.formTimers = @ \cup {id}] ELSE s3
    IN  [s4 EXCEPT !.inFlight = [i \in 1..(Len(@) - 1) |-> IF i < k THEN @[i] ELSE @[i + 1]]]

\* The submit listener from its await on, for the k-th pending request:
\* try / catch / finally.
handleFormSettled(s, v, k, outcome) ==
    LET id == s.inFlight[k].id
        s1 == SettledStatus(s, v, outcome, id)
        s2 == IF outcome = "ok"
              THEN [s1 EXCEPT !.fields = [n \in FieldNames |-> << >>]]
              ELSE s1
        s3 == [s2 EXCEPT !.btnDisabled = FALSE, !.btnLabel = s.inFlight[k].label]
        s4 == IF v = "standalone" THEN [s3 EXCEPT !.formTimers = @ \cup {id}] ELSE s3
    IN  [s4 EXCEPT !.inFlight = [i \in 1..(Len(@) - 1) |-> IF i < k THEN @[i] ELSE @[i + 1]]]

CommitForm(s, op, outcome, id) ==
    /\ fields' = s.fields
    /\ fieldErrors' = s.fieldErrors
    /\ statusText' = s.statusText
    /\ btnDisabled' = s.btnDisabled
    /\ btnLabel' = s.btnLabel
    /\ inFlight' = s.inFlight
    /\ formTimers' = s.formTimers
    /\ submits' = s.submits
    /\ statusOwner' = s.statusOwner
    /\ overlapped' = s.overlapped
    /\ formOp' = [op |-> op, outcome |-> outcome, id |-> id]
    /\ UNCHANGED <<formVariant, hasStatus>>
    /\ UNCHANGED exceptForm

\* Submit events a run follows.
MaxSubmits == 2

\* The values typed into the fields.
Chars(n) == [i \in 1..n |-> "m"]
FieldValues ==
    [name |-> {<< >>, <<Space>>, <<"A">>, <<"A", "l">>},
     email |-> {<< >>, <<"a", "@", "b">>, <<"a", "@", "b", ".", "c">>},
     message |-> {<< >>, Chars(9), Chars(10)}]

\* The user types into a field; main.js and form.js clear its error.
FieldInput(n, value) ==
    /\ formVariant # "none"
    /\ value # fields[n]
    /\ CommitForm([CurForm EXCEPT !.fields[n] = value,
                                  !.fieldErrors = IF formVariant = "standalone"
                                                  THEN @ ELSE @ \ {n}],
                  "input", "none", 0)

\* A field of main.js or form.js loses focus and is validated.
FieldBlur(n) ==
    /\ formVariant \in {"main", "form"}
    /\ CommitForm([CurForm EXCEPT !.fieldErrors =
                        IF validateField(formVariant, n, fields[n])
                        THEN @ \ {n} ELSE @ \cup {n}],
                  "blur", "none", 0)

\* The user submits the form, by its enabled submit button or by Enter in a
\* field (which a disabled default button blocks).
FormSubmit ==
    /\ formVariant # "none"
    /\ ~btnDisabled
    /\ submits < MaxSubmits
    /\ CommitForm(handleFormSubmit(CurForm, formVariant), "submit", "none", submits + 1)

\* A submit event reaches the listener while the button is disabled and a
\* request is pending: form.requestSubmit(), or a second submit control.
SubmitWhilePending ==
    /\ formVariant # "none"
    /\ btnDisabled
    /\ inFlight # << >>
    /\ submits < MaxSubmits
    /\ CommitForm(handleFormSubmit(CurForm, formVariant), "submit", "none", submits + 1)

\* A pending request settles; the mailto wait of form.js always resolves,
\* and its 100ms timers fire in the order they were set.
FormSettled(k, outcome) ==
    /\ k \in 1..Len(inFlight)
    /\ formVariant = "form" => (outcome = "ok" /\ k = 1)
    /\ CommitForm(handleFormSettled(CurForm, formVariant, k, outcome), "settled", outcome,
                  inFlight[k].id)

\* The 5s timer set by submission id fires and clears the status.
FormTimer(id) ==
    /\ id \in formTimers
    /\ CommitForm(ClearStatus([CurForm EXCEPT !.formTimers = @ \ {id}]),
                  "timer", "none", id)

NextForm ==
    \/ \E n \in FieldNames : \E value \in FieldValues[n] : FieldInput(n, value)
    \/ \E n \in FieldNames : FieldBlur(n)
    \/ FormSubmit
    \/ \E k \in 1..Len(inFlight), outcome \in {"networkError", "notOk", "ok"} :
            FormSettled(k, outcome)
    \/ \E id \in formTimers : FormTimer(id)

\* The same with submit events that arrive while a request is pending.
NextFormOverlap == NextForm \/ SubmitWhilePending

\* The form as the markup gives it, its listeners attached by initForm.
FormFresh ==
    /\ fields = [n \in FieldNames |-> << >>]
    /\ fieldErrors = {}
    /\ statusText = ""
    /\ btnDisabled = FALSE
    /\ btnLabel = "Send"
    /\ inFlight = << >>
    /\ formTimers = {}
    /\ submits = 0
    /\ statusOwner = 0
    /\ overlapped = FALSE
    /\ formOp = [op |-> "init", outcome |-> "none", id |-> 0]

\* No contact form on the page.
FormIdle == formVariant = "none" /\ hasStatus = FALSE /\ FormFresh

\* ------------------------------------------------------- utils.js: debounce
\* The delays debounce is given, the arguments of the calls, and how far a
\* run follows the clock and the timer ids.
Delays == {1, 2}
CallArgs == {"a", "b"}
MaxTime == 4
MaxCalls == 3

NoCall == [at |-> 0 - 1, args |-> "none"]
NoRun == [at |-> 0 - 1, args |-> "none", callAt |-> 0 - 1, callArgs |-> "none"]

CurDebounce == [timeoutId |-> timeoutId, timers |-> timers]

\* clearTimeout(id): an id of no pending timer (undefined at first) is ignored.
clearTimeout(pending, id) == {t \in pending : t.id # id}

\* Faulty variant of debounced: the pending timer is not cleared.
debouncedKeepsTimer(s, args) ==
    LET id == s.timeoutId + 1
    IN  [timeoutId |-> id,
         timers |-> s.timers \cup {[id |-> id, due |-> now + delay, args |-> args]}]

\* The function debounce(func, delay) returns, called with args (lines 34-37).
debounced(s, args) ==
    LET id == s.timeoutId + 1
    IN  [timeoutId |-> id,
         timers |-> clearTimeout(s.timers, s.timeoutId)
                        \cup {[id |-> id, due |-> now + delay, args |-> args]}]

\* The wrapper is called.
DebouncedCall(args) ==
    /\ delay > 0
    /\ timeoutId < MaxCalls
    /\ LET s == debounced(CurDebounce, args)
       IN  /\ timeoutId' = s.timeoutId
           /\ timers' = s.timers
    /\ lastCall' = [at |-> now, args |-> args]
    /\ calledSince' = TRUE
    /\ UNCHANGED <<delay, now, invoked>>
    /\ UNCHANGED exceptDebounce

\* A timer whose delay has passed runs its callback, func.apply(this, args);
\* the event loop may run it late.
TimerFires(t) ==
    /\ t \in timers
    /\ t.due <= now
    /\ timers' = timers \ {t}
    /\ invoked' = [at |-> now, args |-> t.args,
                   callAt |-> lastCall.at, callArgs |-> lastCall.args]
    /\ calledSince' = FALSE
    /\ UNCHANGED <<delay, now, timeoutId, lastCall>>
    /\ UNCHANGED exceptDebounce

\* Time passes.
Tick ==
    /\ delay > 0
    /\ now < MaxTime
    /\ now' = now + 1
    /\ UNCHANGED <<delay, timeoutId, timers, lastCall, calledSince, invoked>>
    /\ UNCHANGED exceptDebounce

NextDebounce ==
    \/ \E args \in CallArgs : DebouncedCall(args)
    \/ \E t \in timers : TimerFires(t)
    \/ Tick

\* A wrapper fresh from debounce(func, delay).
DebounceFresh ==
    /\ now = 0
    /\ timeoutId = 0
    /\ timers = {}
    /\ lastCall = NoCall
    /\ calledSince = FALSE
    /\ invoked = NoRun

\* Nothing is debounced.
DebounceIdle == delay = 0 /\ DebounceFresh

InitDebounce == delay \in Delays /\ DebounceFresh

\* ------------------------------------------------ project cards: markup
\* The quotation mark.
Quote == "\""

\* escapeHtml(text): div.textContent = text; return div.innerHTML.  The
\* serialisation of a text node replaces &, < and > and leaves quotation
\* marks as they are.
RECURSIVE escapeHtml(_)
escapeHtml(text) ==
    IF text = << >> THEN << >>
    ELSE (IF Head(text) = "&" THEN <<"&", "a", "m", "p", ";">>
          ELSE IF Head(text) = "<" THEN <<"&", "l", "t", ";">>
          ELSE IF Head(text) = ">" THEN <<"&", "g", "t", ";">>
          ELSE <<Head(text)>>) \o escapeHtml(Tail(text))

\* The URL prefixes of the first pattern of extractYouTubeId, in the order
\* of its alternation.
YouTubePrefixes ==
    << <<"y", "o", "u", "t", "u", "b", "e", ".", "c", "o", "m", "/",
         "w", "a", "t", "c", "h", "?", "v", "=">>,
       <<"y", "o", "u", "t", "u", ".", "b", "e", "/">>,
       <<"y", "o", "u", "t", "u", "b", "e", ".", "c", "o", "m", "/",
         "e", "m", "b", "e", "d", "/">> >>

\* [^&\n?#]
IdStops == {"&", "\n", "?", "#"}

\* [a-zA-Z0-9_-], as far as the characters of the model go.
IdChars == {"a", "b", "c", "d", "e", "h", "m", "o", "t", "u", "v", "w", "y", "A", "B", "_", "-"}

\* The pattern matches at position i with prefix p.
PrefixAt(url, i, p) ==
    /\ i + Len(p) <= Len(url)
    /\ SubSeq(url, i, i + Len(p) - 1) = p
    /\ url[i + Len(p)] \notin IdStops

\* The longest run of characters that are not in IdStops, from position j.
IdRun(url, j) ==
    LET end == CHOOSE k \in j..Len(url) :
                   /\ \A n \in j..k : url[n] \notin IdStops
                   /\ (k = Len(url) \/ url[k + 1] \in IdStops)
    IN  SubSeq(url, j, end)

\* extractYouTubeId(url): the id, or null (the empty sequence here; an id
\* has at least one character).
extractYouTubeId(url) ==
    LET hits == {h \in (1..Len(url)) \X (1..Len(YouTubePrefixes)) :
                    PrefixAt(url, h[1], YouTubePrefixes[h[2]])}
    IN  IF url = << >> THEN << >>
        ELSE IF hits # {}
        THEN LET h == CHOOSE c \in hits :
                        \A d \in hits : c[1] < d[1] \/ (c[1] = d[1] /\ c[2] <= d[2])
             IN  IdRun(url, h[1] + Len(YouTubePrefixes[h[2]]))
        ELSE IF Len(url) = 11 /\ \A i \in 1..11 : url[i] \in IdChars THEN url
        ELSE << >>

\* ${escapeHtml(raw)} in the template.
Escaped(field, position, raw) ==
    [field |-> field, position |-> position, raw |-> raw, text |-> escapeHtml(raw)]

\* ${raw} in the template.
Inserted(field, position, raw) ==
    [field |-> field, position |-> position, raw |-> raw, text |-> raw]

\* project.tags.map(tag => `<span class="project-tag">${escapeHtml(tag)}</span>`)
TagSpans(tags) == [i \in 1..Len(tags) |-> Escaped("tags", "text", tags[i])]

\* project.links.map(link => `<a href="${escapeHtml(link.url)}" ...>
\* ${escapeHtml(link.label)}</a>`)
RECURSIVE LinkAnchors(_)
LinkAnchors(links) ==
    IF links = << >> THEN << >>
    ELSE <<Escaped("link url", "attribute", links[1].url),
           Escaped("link label", "text", links[1].label)>> \o LinkAnchors(Tail(links))

\* The <img> of a card.
ImageTag(project) ==
    <<Escaped("image", "attribute", project.image),
      Escaped("title", "attribute", project.title)>>

\* The media of a card of the projects page: the iframe of a video whose id
\* is found, the image when there is no video.
MediaHtml(project) ==
    IF project.video # << >>
    THEN (IF extractYouTubeId(project.video) # << >>
          THEN <<Inserted("video", "attribute", extractYouTubeId(project.video)),
                 Escaped("title", "attribute", project.title)>>
          ELSE << >>)
    ELSE IF project.image # << >> THEN ImageTag(project)
    ELSE << >>

\* The markup createProjectCard(project) returns, as the values it inserts
\* in the template from top to bottom.  A project is [title, description,
\* tags, links, image, video]; an empty image or video is one left out.
CardMarkup(v, project) ==
    IF v = "utils"
    THEN <<Inserted("tags", "attribute", JoinComma(project.tags))>>
         \o (IF project.image # << >> THEN ImageTag(project) ELSE << >>)
         \o <<Escaped("title", "text", project.title)>>
         \o TagSpans(project.tags)
         \o <<Escaped("description", "text", project.description)>>
         \o LinkAnchors(project.links)
    ELSE <<Inserted("tags", "attribute", ToLowerCase(JoinComma(project.tags)))>>
         \o MediaHtml(project)
         \o <<Escaped("title", "text", project.title)>>
         \o TagSpans(project.tags)
         \o <<Escaped("description", "text", project.description)>>
         \o (IF project.video # << >>
             THEN <<Escaped("video", "attribute", project.video)>> ELSE << >>)
         \o LinkAnchors(project.links)

\* Texts of project data: plain, with markup, with an ampersand.
CardTexts == {<<"a">>, <<"<", "b", ">">>, <<"A", "&">>}

\* Videos: none, a short link whose id has markup, a bare id, no YouTube URL.
CardVideos ==
    {<< >>,
     <<"y", "o", "u", "t", "u", ".", "b", "e", "/", "<", "b">>,
     [i \in 1..11 |-> "a"],
     <<"a">>}

\* Tags and links of a project.
MaxCardTags == 1
CardTagLists == UNION {[1..n -> CardTexts] : n \in 0..MaxCardTags}
CardLinkLists ==
    {<< >>} \cup {<<[label |-> l, url |-> u]>> : l \in CardTexts, u \in CardTexts}

CardProjects ==
    [title : CardTexts, description : CardTexts, tags : CardTagLists,
     links : CardLinkLists, image : {<< >>} \cup CardTexts, video : CardVideos]

\* renderProjects maps createProjectCard over the projects: one application.
CreateProjectCard ==
    /\ cardScript # "none"
    /\ cardMarkup = << >>
    /\ cardMarkup' = CardMarkup(cardScript, cardProject)
    /\ UNCHANGED <<cardScript, cardProject>>
    /\ UNCHANGED <<modalVars, chartVars, sparkVars, pageVars, formVars, debounceVars>>

\* No card is built.
CardIdle ==
    /\ cardScript = "none"
    /\ cardProject = [title |-> << >>, description |-> << >>, tags |-> << >>,
                      links |-> << >>, image |-> << >>, video |-> << >>]
    /\ cardMarkup = << >>

\* A project as fetched, before its card is built.
InitCard ==
    /\ cardScript \in {"utils", "projects"}
    /\ cardProject \in CardProjects
    /\ cardMarkup = << >>

\* Nothing has been drawn and no chart function has run.
NothingDrawn ==
    /\ chartData = << >>
    /\ bars = << >>
    /\ fills = << >>
    /\ ctxScale = Num(1)
    /\ barTheme = NoValue
    /\ listeners = << >>
    /\ appended = 0
    /\ drawOp = [fn |-> "none", surface |-> "ok"]
    /\ drawThrew = FALSE

InitChart ==
    /\ hasContext \in BOOLEAN
    /\ hasCanvas = TRUE
    /\ rectWidth \in RectWidths
    /\ rectHeight \in RectHeights
    /\ devicePixelRatio = 1
    /\ NothingDrawn

\* No chart on the page.
ChartIdle ==
    /\ hasContext = TRUE
    /\ hasCanvas = FALSE
    /\ rectWidth = 330
    /\ rectHeight = 100
    /\ devicePixelRatio = 1
    /\ NothingDrawn

NextChart == Render \/ CallInitChart \/ Resize

\* A page with or without a chart canvas, whose canvases give a context or
\* not.
InitSurface ==
    /\ hasContext \in BOOLEAN
    /\ hasCanvas \in BOOLEAN
    /\ rectWidth = 330
    /\ rectHeight = 100
    /\ devicePixelRatio = 1
    /\ NothingDrawn

\* The data and values of the calls where the surface is what matters.
SurfaceData == {data \in DataSequences : Len(data) = 1}
SurfaceValues == {values \in SparkSequences : Len(values) = 2 /\ values[1] = 0}

\* Every exported function of charts.js, on the surfaces page code can
\* hand it.
NextSurface ==
    \/ \E canvas \in BOOLEAN, data \in SurfaceData : RenderPixelBarChart(canvas, data)
    \/ \E canvas \in BOOLEAN, ctx \in BOOLEAN, values \in SurfaceValues :
            RenderSparkline(canvas, values, 100, 30, ctx)
    \/ CallInitChart
    \/ \E container \in BOOLEAN, data \in SurfaceData :
            CreateBarVisualization(container, data)
    \/ \E container \in BOOLEAN, values \in SurfaceValues :
            CreateSparkVisualization(container, values)

\* The chart on a page with a theme toggle: renders, resizes, changes of
\* pixel density and theme changes.
NextRepaint ==
    \/ \E data \in SurfaceData : RenderPixelBarChart(TRUE, data)
    \/ CallInitChart
    \/ Resize
    \/ Rescale
    \/ ThemeClick
    \/ ThemeTimer

\* A page, initialised, with a theme toggle and no projects grid.
PageThemed ==
    /\ pageState = "ready"
    /\ variant = "utils"
    /\ hasGrid = FALSE
    /\ hasFilters = FALSE
    /\ projectsJson = [kind |-> "invalid", list |-> << >>]
    /\ hasToggle = TRUE
    /\ themeKey = NoValue
    /\ fetchState = "none"
    /\ fetchCount = 0
    /\ fetchOutcome = "none"
    /\ grid = "initial"
    /\ cards = << >>
    /\ filterBtns = {}
    /\ filtersWired = FALSE
    /\ lastFilter = NoFilter
    /\ dataTheme = NoValue
    /\ toggleWired = TRUE
    /\ transitioning = FALSE
    /\ themeTimers = 0

\* ------------------------------------------------------------------- init
\* The page after its initialisation: initModal() has wired #stats-modal
\* (hidden in the markup) when the page has one; nothing was built by
\* createModal yet; focus is on the body or on a page button.
PageLoaded(wired) ==
    /\ \E exists \in BOOLEAN :
        /\ status = [m \in Modals |-> IF m = StatsModal /\ exists THEN "attached" ELSE "absent"]
        /\ observed = [m \in Modals |-> m = StatsModal /\ exists /\ wired]
        /\ \E c \in BOOLEAN, o \in BOOLEAN, n \in 0..MaxContent :
            /\ hasClose = [m \in Modals |-> m = StatsModal /\ exists /\ c]
            /\ hasOverlay = [m \in Modals |-> m = StatsModal /\ exists /\ o]
            /\ nContent = [m \in Modals |-> IF m = StatsModal /\ exists THEN n ELSE 0]
    /\ hidden = [m \in Modals |-> TRUE]
    /\ ariaHidden = [m \in Modals |-> "unset"]
    /\ onCloseCalls = [m \in Modals |-> 0]
    /\ bodyOverflow = ""
    /\ activeElement \in {Body, PageButtons[1]}
    /\ currentModal = NoModal
    /\ focusableElements = << >>
    /\ firstFocusable = Null
    /\ lastFocusable = Null
    /\ previousFocus = Null
    /\ threw = FALSE
    /\ pendingDefault = NoKey
    /\ lastOp = Op("init", NoModal, "none", FALSE)
    /\ openedFrom = [m \in Modals |-> Null]

InitModals == PageLoaded(TRUE)

\* The page as loaded, before initModal() has run.
InitUnwired == PageLoaded(FALSE) /\ recording = FALSE /\ ChartIdle /\ SparkIdle /\ PageIdle /\ FormIdle /\ DebounceIdle /\ CardIdle

Init == InitModals /\ recording = FALSE /\ ChartIdle /\ SparkIdle /\ PageIdle /\ FormIdle /\ DebounceIdle /\ CardIdle

\* The same page, in a run that records where focus was at each openModal.
InitRecording == InitModals /\ recording = TRUE /\ ChartIdle /\ SparkIdle /\ PageIdle /\ FormIdle /\ DebounceIdle /\ CardIdle

\* A page without modals.
ModalsIdle ==
    /\ recording = FALSE
    /\ status = [m \in Modals |-> "absent"]
    /\ observed = [m \in Modals |-> FALSE]
    /\ hasClose = [m \in Modals |-> FALSE]
    /\ hasOverlay = [m \in Modals |-> FALSE]
    /\ nContent = [m \in Modals |-> 0]
    /\ hidden = [m \in Modals |-> TRUE]
    /\ ariaHidden = [m \in Modals |-> "unset"]
    /\ onCloseCalls = [m \in Modals |-> 0]
    /\ bodyOverflow = ""
    /\ activeElement = Body
    /\ currentModal = NoModal
    /\ focusableElements = << >>
    /\ firstFocusable = Null
    /\ lastFocusable = Null
    /\ previousFocus = Null
    /\ threw = FALSE
    /\ pendingDefault = NoKey
    /\ lastOp = Op("init", NoModal, "none", FALSE)
    /\ openedFrom = [m \in Modals |-> Null]

\* The chart alone, on a page whose modals are never touched.
InitChartOnly == InitChart /\ ModalsIdle /\ SparkIdle /\ PageIdle /\ FormIdle /\ DebounceIdle /\ CardIdle

\* A debounced function alone.
InitDebounceOnly ==
    InitDebounce /\ ModalsIdle /\ ChartIdle /\ SparkIdle /\ PageIdle /\ FormIdle /\ CardIdle

\* The chart on a page with a theme toggle.
InitRepaint ==
    InitChart /\ PageThemed /\ ModalsIdle /\ SparkIdle /\ FormIdle /\ DebounceIdle /\ CardIdle

\* The chart functions alone.
InitSurfaceOnly == InitSurface /\ SparkIdle /\ ModalsIdle /\ PageIdle /\ FormIdle /\ DebounceIdle /\ CardIdle

\* The sparkline alone.
InitSparkOnly == SparkIdle /\ ModalsIdle /\ ChartIdle /\ PageIdle /\ FormIdle /\ DebounceIdle /\ CardIdle

\* A page as loaded that has a projects grid or not, a theme toggle or not,
\* and any theme saved by an earlier visit.
InitPage ==
    /\ pageState = "loaded"
    /\ variant \in {"utils", "projects"}
    /\ hasGrid \in BOOLEAN
    /\ hasFilters = TRUE
    /\ projectsJson \in LoadPayloads
    /\ hasToggle \in BOOLEAN
    /\ themeKey \in {NoValue, "cream"}
    /\ DocumentFresh
    /\ ModalsIdle /\ ChartIdle /\ SparkIdle /\ FormIdle /\ DebounceIdle /\ CardIdle

\* A page with a contact form, initialised.
InitForm ==
    /\ formVariant \in {"main", "form", "standalone"}
    /\ hasStatus \in BOOLEAN
    /\ FormFresh
    /\ ModalsIdle /\ ChartIdle /\ SparkIdle /\ PageIdle /\ DebounceIdle /\ CardIdle

\* A projects page as loaded, with projects of various tags.
InitFilter ==
    /\ pageState = "loaded"
    /\ variant \in {"utils", "projects"}
    /\ hasGrid = TRUE
    /\ hasFilters = TRUE
    /\ projectsJson \in FilterPayloads
    /\ hasToggle = TRUE
    /\ themeKey = NoValue
    /\ DocumentFresh
    /\ ModalsIdle /\ ChartIdle /\ SparkIdle /\ FormIdle /\ DebounceIdle /\ CardIdle

NextApi ==
    \/ \E m \in Modals : OpenModal(m)
    \/ \E m \in Modals : CloseModal(m)
    \/ \E m \in Modals, n \in 0..MaxContent : CreateModal(m, n)

\* The exported calls on #stats-modal or on the null for a missing modal.
NextInit ==
    \/ InitModal
    \/ \E m \in {StatsModal, NoModal} : OpenModal(m)
    \/ \E m \in {StatsModal, NoModal} : CloseModal(m)

NextKeys ==
    \/ \E key \in {"Tab", "Escape"}, shift \in BOOLEAN : KeyDown(key, shift)
    \/ KeyDefault

NextClick == \E m \in Modals, o \in BOOLEAN, f \in BOOLEAN : Click(m, o, f)

NextHide == \E m \in Modals : DirectHide(m)

Next == NextApi \/ NextKeys \/ NextClick \/ NextHide

\* The modal controller under all its events.
Spec == Init /\ [][Next]_vars

\* Only the exported open / close / create calls.
SpecApi == Init /\ [][NextApi]_vars

\* The exported calls, recording where focus was at each openModal.
SpecApiRecording == InitRecording /\ [][NextApi]_vars

\* The exported calls and the keyboard.
SpecKeys == Init /\ [][NextApi \/ NextKeys]_vars

\* The exported calls and direct manipulation of the hidden attribute.
SpecHide == Init /\ [][NextApi \/ NextHide]_vars

\* Page initialisation and the calls it makes, from the page as loaded.
SpecInit == InitUnwired /\ [][NextInit]_vars

\* The chart renderer.
SpecChart == InitChartOnly /\ [][NextChart]_vars

\* The exported chart functions on present and absent surfaces.
SpecSurface == InitSurfaceOnly /\ [][NextSurface]_vars

\* A function wrapped by debounce, its calls and its timers.
SpecDebounce == InitDebounceOnly /\ [][NextDebounce]_vars

\* Repaints of the chart as the window and the theme change.
SpecRepaint == InitRepaint /\ [][NextRepaint]_vars

\* The sparkline renderer.
SpecSpark == InitSparkOnly /\ [][NextSpark]_vars

\* A page's initialisation, project loading, theme toggle and reloads.
SpecPage == InitPage /\ [][NextProjects \/ NextTheme]_vars

\* Project loading and filtering.
SpecFilter == InitFilter /\ [][NextProjects]_vars

\* The contact form.
SpecForm == InitForm /\ [][NextForm]_vars

\* createProjectCard on one project.
InitCardOnly ==
    InitCard /\ ModalsIdle /\ ChartIdle /\ SparkIdle /\ PageIdle /\ FormIdle /\ DebounceIdle

SpecCard == InitCardOnly /\ [][CreateProjectCard]_vars

\* The contact form under submit events that overlap.
SpecFormOverlap == InitForm /\ [][NextFormOverlap]_vars

\* ================================================================ claims
\* The modal state the code of modal.js owns, and the page state it writes.
modalState == <<status, hidden, ariaHidden, onCloseCalls, bodyOverflow, activeElement,
                currentModal, focusableElements, firstFocusable, lastFocusable,
                previousFocus>>

SomeModalOpen == \E m \in Modals : Visible(Cur, m)

\* C1: closing a modal by closeModal returns keyboard focus to the element
\* that held focus immediately before that modal was opened.  Checked for
\* every closeModal(m) of a rendered modal m whose remembered element is one
\* that can still take focus when the modal closes.
C1_CloseRestoresFocus ==
    [][\A m \in Modals :
        (/\ lastOp'.op = "closeModal"
         /\ lastOp'.m = m
         /\ Visible(Cur, m)
         /\ openedFrom[m] # Null
         /\ CanFocus([status |-> status', hidden |-> hidden'], openedFrom[m]))
        => activeElement' = openedFrom[m]]_vars

\* C2: an Escape keydown dispatched inside a rendered modal prevents the
\* default and closes exactly that modal: the modal is hidden afterwards and
\* the hidden attribute of every other modal is left as it was.
C2_EscapeClosesItsModal ==
    [][(/\ lastOp'.op = "keydown"
        /\ lastOp'.key = "Escape"
        /\ TargetModal # NoModal)
        => /\ lastOp'.prevented
           /\ hidden'[TargetModal]
           /\ \A m \in Modals \ {TargetModal} : hidden'[m] = hidden[m]]_vars

\* C3: after any sequence of open and close calls, body scrolling is locked
\* if and only if at least one modal is rendered.
C3_ScrollLockedIffOpen ==
    (bodyOverflow = "hidden") <=> SomeModalOpen

\* C4: while a modal is open, after any sequence of Tab and Shift+Tab presses
\* focus is on an element inside that modal.  Checked in the reading most
\* favourable to the code: only when that modal is the single rendered modal
\* and has at least one focusable element, and only between key presses.
C4_FocusStaysInModal ==
    \A m \in Modals :
        (/\ Idle
         /\ Visible(Cur, m)
         /\ \A k \in Modals \ {m} : ~Visible(Cur, k)
         /\ Descendants(m) # << >>)
        => activeElement[1] = m

\* C5: a modal built by createModal is removed from the document and its
\* onClose callback is called once whenever a click on its close button, a
\* click on its overlay or an Escape key closes it.
C5_BuiltModalRemovedOnClose ==
    [][\A m \in DynModals :
        (/\ lastOp'.op \in {"closeClick", "overlayClick", "keydown"}
         /\ Visible(Cur, m)
         /\ hidden'[m] \/ status'[m] # "attached")
        => /\ status'[m] = "removed"
           /\ onCloseCalls'[m] = onCloseCalls[m] + 1]_vars

\* C6: for a data sequence whose values are all zero, every bar is drawn
\* with height exactly 0 (never NaN, negative or positive).
AllZero(data) == data # << >> /\ \A i \in 1..Len(data) : data[i] = 0

C6_AllZeroBarsHaveHeightZero ==
    (AllZero(chartData) /\ Len(bars) = Len(chartData))
        => \A i \in 1..Len(bars) :
            /\ bars[i].height = Num(0)
            /\ fills[i].height = Num(0)

\* C7: immediately after openModal(m) returns for a modal of the document,
\* focus is on m's close button if m has one, and otherwise on the first
\* element of m's focusable sequence (if it has any).
C7_OpenMovesFocus ==
    lastOp.op = "openModal" =>
        LET m == lastOp.m
        IN  /\ hasClose[m] => activeElement = <<m, 0>>
            /\ (~hasClose[m] /\ Descendants(m) # << >>)
                   => activeElement = Descendants(m)[1]

C7_Witness ==
    /\ lastOp.op = "openModal"
    /\ ~hasClose[lastOp.m]
    /\ Descendants(lastOp.m) # << >>
    /\ activeElement = Descendants(lastOp.m)[1]
    /\ previousFocus # activeElement

\* C8: while a modal with at least one focusable element is open, Tab on its
\* last focusable element prevents the default and moves focus to its first
\* focusable element, and Shift+Tab on its first moves focus to its last.
C8_TabWraps ==
    [][\A m \in Modals :
        (/\ lastOp'.op = "keydown"
         /\ lastOp'.key = "Tab"
         /\ TargetModal = m
         /\ Descendants(m) # << >>
         /\ activeElement =
              Descendants(m)[IF lastOp'.shift THEN 1 ELSE Len(Descendants(m))])
        => /\ lastOp'.prevented
           /\ activeElement' =
                Descendants(m)[IF lastOp'.shift THEN Len(Descendants(m)) ELSE 1]]_vars

\* C9: while the active modal's focusable sequence is empty, a Tab or
\* Shift+Tab keydown that reaches the modal listener is a no-op: focus and
\* the modal state stay as they were and the default is not prevented.
C9_TabNoOpWhenNothingFocusable ==
    [][(/\ lastOp'.op = "keydown"
        /\ lastOp'.key = "Tab"
        /\ TargetModal # NoModal
        /\ currentModal # NoModal
        /\ Visible(Cur, currentModal)
        /\ focusableElements = << >>)
        => /\ UNCHANGED modalState
           /\ ~lastOp'.prevented]_vars

C9_Witness ==
    /\ lastOp.op = "keydown"
    /\ lastOp.key = "Tab"
    /\ lastOp.m # NoModal
    /\ currentModal # NoModal
    /\ Visible(Cur, currentModal)
    /\ Descendants(currentModal) = << >>
    /\ focusableElements = << >>
    /\ pendingDefault.key = "Tab"

\* C10: hiding the modal wired by initModal by adding the hidden attribute
\* directly, without closeModal, releases the body scroll lock.
C10_DirectHideReleasesLock ==
    (lastOp.op = "directHide" /\ observed[lastOp.m]) => bodyOverflow = ""

C10_Witness ==
    /\ lastOp.op = "directHide"
    /\ observed[lastOp.m]
    /\ lastOp.wasVisible
    /\ currentModal = lastOp.m
    /\ bodyOverflow = ""

\* C11: there is one active-modal reference, and right after openModal(B)
\* it names B, the cached focusable sequence is the one computed from B at
\* that call and the cached first and last elements are its ends, also when
\* another modal was active before the call.
C11_OpenReplacesActiveModal ==
    lastOp.op = "openModal" =>
        /\ currentModal = lastOp.m
        /\ \A a \in Modals : currentModal = a => a = lastOp.m
        /\ focusableElements = Descendants(lastOp.m)
        /\ firstFocusable = IF Descendants(lastOp.m) = << >> THEN Undefined
                            ELSE Descendants(lastOp.m)[1]
        /\ lastFocusable = IF Descendants(lastOp.m) = << >> THEN Undefined
                           ELSE Descendants(lastOp.m)[Len(Descendants(lastOp.m))]

\* openModal(B) has just run while another modal, opened earlier and not
\* closed, is still rendered, and B has focusable elements.
C11_Witness ==
    /\ lastOp.op = "openModal"
    /\ \E a \in Modals : a # lastOp.m /\ Visible(Cur, a) /\ ariaHidden[a] = "false"
    /\ Descendants(lastOp.m) # << >>
    /\ currentModal = lastOp.m
    /\ focusableElements = Descendants(lastOp.m)

\* C12: right after closeModal(modal) the modal is hidden with aria-hidden
\* "true", no modal is active, the cached focusable sequence is empty, the
\* cached first and last elements are none and the remembered
\* previously-focused element is cleared.
C12_CloseClearsState ==
    lastOp.op = "closeModal" =>
        /\ hidden[lastOp.m]
        /\ ariaHidden[lastOp.m] = "true"
        /\ currentModal = NoModal
        /\ focusableElements = << >>
        /\ firstFocusable = Null
        /\ lastFocusable = Null
        /\ previousFocus = Null

\* closeModal has just run on the rendered active modal.
C12_Witness ==
    /\ lastOp.op = "closeModal"
    /\ lastOp.wasVisible
    /\ hidden[lastOp.m]
    /\ ariaHidden[lastOp.m] = "true"
    /\ currentModal = NoModal
    /\ previousFocus = Null

\* C13: openModal, closeModal and initModal called for a modal that does not
\* exist raise no error and leave the modal state, the focus, the scroll
\* lock and the wiring as they were; and no call raises an error for a
\* modal that lacks a close button or an overlay.
C13_MissingModalIsNoOp ==
    [][/\ ~threw'
       /\ (/\ lastOp'.op \in {"openModal", "closeModal", "initModal"}
           /\ lastOp'.m = NoModal)
          => UNCHANGED <<modalState, observed>>]_vars

\* initModal has just run on a page without #stats-modal.
C13_Witness ==
    /\ lastOp.op = "initModal"
    /\ lastOp.m = NoModal
    /\ status[StatsModal] = "absent"
    /\ ~threw

\* The plot height and the largest value of the chart last rendered.
PlotHeight == Num(rectHeight - 2 * ChartPadding)
DataMax == MathMax([i \in 1..Len(chartData) |-> Num(chartData[i])])

\* A chart of non-empty data with a positive maximum has been drawn.
PositiveChartDrawn ==
    /\ hasContext
    /\ chartData # << >>
    /\ Len(bars) = Len(chartData)
    /\ JsLess(Num(0), DataMax)

\* Every bar's height is (value / max) * plotHeight, the full plot height at
\* the maximum, 0 at value 0, and within [0, plotHeight], as is the height
\* of the rectangle filled for it.
HeightsScaled ==
    \A i \in 1..Len(bars) :
        /\ bars[i].height = Frac(chartData[i] * PlotHeight[1], DataMax[1] * PlotHeight[2])
        /\ Num(chartData[i]) = DataMax => bars[i].height = PlotHeight
        /\ chartData[i] = 0 => bars[i].height = Num(0)
        /\ ~JsLess(bars[i].height, Num(0)) /\ ~JsLess(PlotHeight, bars[i].height)
        /\ ~JsLess(fills[i].height, Num(0)) /\ ~JsLess(PlotHeight, fills[i].height)

\* C14 as stated: for non-empty data of non-negative values with a positive
\* maximum, each bar's height is (value / max) * plotHeight, the bar at the
\* maximum has the full plot height, a zero-value bar has height 0 and every
\* bar height lies between 0 and plotHeight.
C14_BarHeightsScaled == PositiveChartDrawn => HeightsScaled

\* C14, amended: the same, for a canvas displayed at least as high as twice
\* the padding, so that the plot height is not negative.
C14_BarHeightsScaledInPlot ==
    (PositiveChartDrawn /\ rectHeight >= 2 * ChartPadding) => HeightsScaled

\* A chart with a bar strictly between 0 and the maximum has been drawn on a
\* canvas high enough for a plot.
C14_Witness ==
    /\ PositiveChartDrawn
    /\ rectHeight >= 2 * ChartPadding
    /\ \E i \in 1..Len(bars) :
        /\ JsLess(Num(0), Num(chartData[i])) /\ JsLess(Num(chartData[i]), DataMax)
        /\ bars[i].height # fills[i].height

\* A sparkline of one repeated value has been rendered.
ConstantSparkline ==
    /\ sparkValues # << >>
    /\ \A i \in 1..Len(sparkValues) : sparkValues[i] = sparkValues[1]

\* C15: for a constant-value input, renderSparkline replaces the value range
\* of 0 by 1, so that nothing is divided by zero for the vertical position,
\* and places all points at the same (finite) vertical position.
C15_ConstantSparklineIsFlat ==
    ConstantSparkline =>
        /\ SparkRange(sparkValues) = Num(1)
        /\ \A i \in 1..Len(sparkPoints) :
            /\ IsFinite(sparkPoints[i].y)
            /\ sparkPoints[i].y = sparkPoints[1].y

\* A sparkline of several points of one value has been rendered.
C15_Witness ==
    /\ ConstantSparkline
    /\ Len(sparkPoints) = MaxSparkPoints
    /\ sparkPoints[MaxSparkPoints].y = Num(sparkCanvas.height - SparkPadding)

\* C16: after a filter button made for tag t (or the All button) was
\* clicked, a card is shown if and only if t is 'all' or t is one of the
\* tags of the card's project record; this depends on the last click only.
C16_FilterShowsTaggedCards ==
    (lastFilter # NoFilter /\ grid = "cards") =>
        \A i \in 1..Len(cards) :
            cards[i].shown <=>
                \/ lastFilter.tag = All
                \/ Includes(projectsJson.list[cards[i].title].tags, lastFilter.tag)

\* The fetch of the project data failed, was answered non-OK, or gave data
\* that is not JSON or not a list of project records.
LoadFailed ==
    /\ fetchState = "done"
    /\ fetchOutcome # "ok" \/ projectsJson.kind # "list"

C18_OptionalFieldsRender ==
    (/\ fetchState = "done"
     /\ fetchOutcome = "ok"
     /\ projectsJson.kind = "list"
     /\ hasGrid)
        => /\ grid # "error"
           /\ Len(cards) = Len(projectsJson.list)
           /\ \A i \in 1..Len(cards) : cards[i].title = i

\* The persisted key and the data-theme attribute agree.
ThemeAgrees ==
    /\ themeKey = NoValue <=> dataTheme = NoValue
    /\ themeKey = "cream" <=> dataTheme = "cream"

\* A reload followed by the page's initialisation brings back the theme
\* that was in effect before the reload.
ReloadRestoresTheme ==
    (pageState = "ready" /\ pageState' = "loaded")
        => initThemeToggle(CurTheme)'.dataTheme = dataTheme

\* C19 as stated: after the page's initialisation and any sequence of
\* theme-toggle clicks the persisted key and the data-theme attribute agree
\* (key absent exactly for the default theme, 'cream' exactly for the
\* alternate one), so that re-initialising the page restores the theme.
C19_ThemeKeyAgrees ==
    [][(pageState' = "ready" => ThemeAgrees') /\ ReloadRestoresTheme]_vars

\* C19, amended: the same, on a page that has a theme toggle.
C19_ThemeKeyAgreesWithToggle ==
    [][hasToggle => ((pageState' = "ready" => ThemeAgrees') /\ ReloadRestoresTheme)]_vars

\* A click on the toggle of an initialised page has just put the alternate
\* theme in effect and persisted it.
C19_Witness ==
    /\ pageState = "ready"
    /\ hasToggle /\ toggleWired
    /\ dataTheme = "cream" /\ themeKey = "cream"
    /\ transitioning

\* A submission has just failed: its request was rejected or answered
\* non-OK.
SubmissionFailed ==
    formOp'.op = "settled" /\ formOp'.outcome \in {"networkError", "notOk"}

\* The error status is shown, no request is issued in place of the failed
\* one, and the button is enabled with the label it had before the submit.
FailureHandled ==
    /\ statusText' = "error"
    /\ Len(inFlight') = Len(inFlight) - 1
    /\ ~btnDisabled'
    /\ btnLabel' = "Send"

\* C20 as stated: when a contact-form submission fails, a user-visible error
\* status is shown, the submission is not retried, and the submit button
\* ends enabled with its original label.
C20_FailedSubmitReported == [][SubmissionFailed => FailureHandled]_vars

\* C20, amended: the same, for a form that has a status element.
C20_FailedSubmitReportedWithStatus ==
    [][(SubmissionFailed /\ hasStatus) => FailureHandled]_vars

\* A submission of a form with a status element has failed and was reported.
C20_Witness ==
    /\ formOp.op = "settled"
    /\ formOp.outcome = "notOk"
    /\ hasStatus
    /\ statusText = "error"
    /\ ~btnDisabled
    /\ inFlight = << >>
    /\ fields.message = Chars(10)

\* The fields pass the validation the form promises: required fields
\* non-empty, email of the email format, message of at least 10 characters.
FieldsPass(f) ==
    /\ \A n \in FieldNames : Trim(f[n]) # << >>
    /\ IsValidEmail(Trim(f.email))
    /\ Len(Trim(f.message)) >= 10

\* C21: on a form that has a status element, a submit whose fields do not
\* all pass validation sends nothing (no request, no mailto navigation), does
\* not reset the form, and shows the error status.
C21_InvalidSubmitSendsNothing ==
    [][(formOp'.op = "submit" /\ hasStatus /\ ~FieldsPass(fields))
        => /\ inFlight' = inFlight
           /\ fields' = fields
           /\ statusText' = "invalid"]_vars

\* What the chart functions have drawn.
drawing == <<bars, fills, sparkCanvas, sparkValues, sparkPoints>>

\* A chart function has just been called on an absent surface (canvas or
\* container) or on one that gives no 2D context.
SurfaceUnavailable ==
    /\ drawOp'.fn \in {"renderPixelBarChart", "renderSparkline", "initChart",
                       "createVisualization"}
    /\ drawOp'.surface \in {"absent", "noContext"}

\* C22: renderPixelBarChart, renderSparkline, initChart and
\* createVisualization return without drawing and without raising an error
\* when the drawing surface is absent or gives no 2D context.
C22_NoSurfaceIsNoOp ==
    [][SurfaceUnavailable => (UNCHANGED drawing /\ ~drawThrew')]_vars

\* C23: a function wrapped by debounce(func, delay) runs only when delay has
\* passed since the last call of the wrapper, at most once per burst of
\* calls and with the arguments of the last call of the burst; at most one
\* timer is pending at any time.
C23_DebounceRunsOncePerBurst ==
    /\ Cardinality(timers) <= 1
    /\ invoked # NoRun =>
        /\ invoked.callAt >= 0
        /\ invoked.at - invoked.callAt >= delay
        /\ invoked.args = invoked.callArgs
    /\ (invoked # NoRun /\ ~calledSince) => timers = {}

\* func has run, on time, for the last of several calls.
C23_Witness ==
    /\ invoked # NoRun
    /\ invoked.args = "b"
    /\ timeoutId = MaxCalls
    /\ ~calledSince
    /\ invoked.callAt > 0
    /\ invoked.at = invoked.callAt + delay

\* The plot width of the chart last rendered, and the left edge of slot i
\* (counted from 1) of its equal slots.
PlotWidth == Num(rectWidth - 2 * ChartPadding)
SlotWidth == JsDiv(PlotWidth, Num(Len(chartData)))
SlotLeft(i) == JsAdd(Num(ChartPadding), JsMul(Num(i - 1), SlotWidth))

\* a <= b
JsLeq(a, b) == a = b \/ JsLess(a, b)

\* A chart of n >= 1 points has been drawn in a plot of positive width.
WideChartDrawn ==
    /\ hasContext
    /\ chartData # << >>
    /\ Len(bars) = Len(chartData)
    /\ rectWidth > 2 * ChartPadding

\* C24: for n >= 1 points in a plot of positive width, bar i has 0.8 of the
\* width of a slot (plotWidth / n) and lies inside slot i, and the
\* rectangles filled for the bars lie in sequence order from left to right,
\* inside the plot's horizontal extent, without overlapping.
C24_BarsInTheirSlots ==
    WideChartDrawn =>
        /\ \A i \in 1..Len(bars) :
            /\ bars[i].width = JsMul(SlotWidth, Frac(8, 10))
            /\ JsLeq(SlotLeft(i), bars[i].x)
            /\ JsLeq(JsAdd(bars[i].x, bars[i].width), SlotLeft(i + 1))
            /\ JsLeq(Num(ChartPadding), fills[i].x)
            /\ JsLeq(JsAdd(fills[i].x, fills[i].width), JsAdd(Num(ChartPadding), PlotWidth))
            /\ JsLeq(Num(0), fills[i].width)
        /\ \A i \in 1..(Len(bars) - 1) :
            /\ JsLeq(JsAdd(bars[i].x, bars[i].width), bars[i + 1].x)
            /\ JsLeq(JsAdd(fills[i].x, fills[i].width), fills[i + 1].x)

\* A chart of several points has been drawn whose last bar does not start on
\* a whole pixel.
C24_Witness ==
    /\ WideChartDrawn
    /\ Len(bars) = MaxPoints
    /\ fills[MaxPoints].x # bars[MaxPoints].x
    /\ JsLess(SlotLeft(MaxPoints), bars[MaxPoints].x)

\* The step is a chart function's (the theme is left alone), and a render on
\* a canvas that gives a context.
Repaints ==
    /\ UNCHANGED themeVars
    /\ drawOp'.fn \in {"renderPixelBarChart", "initChart", "resize"}
    /\ drawOp'.surface = "ok"

\* The chart is drawn, and the step renders again from the inputs it was
\* drawn from: the data, the displayed size, the pixel density, the theme.
SameInputs ==
    /\ chartData # << >>
    /\ Len(bars) = Len(chartData)
    /\ chartData' = chartData
    /\ rectWidth' = rectWidth /\ rectHeight' = rectHeight
    /\ devicePixelRatio' = devicePixelRatio
    /\ dataTheme' = barTheme

\* C25: a render is a full repaint: rendering again from the same inputs
\* yields the same drawing, context scale included, the scale always being
\* the pixel density and the colours those of the current theme; a resize
\* event re-renders the data initChart generated, which never changes.
C25_RenderIsFullRepaint ==
    [][/\ (Repaints /\ SameInputs)
            => /\ bars' = bars /\ fills' = fills
               /\ ctxScale' = ctxScale /\ barTheme' = barTheme
       /\ Repaints
            => /\ ctxScale' = JsOr(Num(devicePixelRatio'), Num(1))
               /\ barTheme' = dataTheme'
               /\ Len(bars') = Len(chartData')
       /\ (Repaints /\ drawOp'.fn = "resize")
            => chartData' = listeners[Len(listeners)]
       /\ listeners # << >> => listeners' = listeners]_vars

\* The chart was rendered again, by a resize event, on a screen of density 2
\* under the alternate theme.
C25_Witness ==
    /\ drawOp.fn = "resize"
    /\ hasContext
    /\ devicePixelRatio = 2
    /\ ctxScale = Num(2)
    /\ barTheme = "cream"
    /\ chartData = listeners[1]
    /\ Len(bars) = MaxPoints

\* The focus-trap state of the active modal and the scroll lock.
trapState == <<currentModal, focusableElements, firstFocusable, lastFocusable,
               previousFocus, bodyOverflow>>

\* C26: closeModal(X) for a modal X of the document that is not the active
\* modal, while the active modal is rendered, leaves the active modal, its
\* cached focusable elements, its boundary elements, the previously focused
\* element and the scroll lock unchanged.
C26_CloseOfOtherModalKeepsTrap ==
    [][(/\ lastOp'.op = "closeModal"
        /\ lastOp'.m # NoModal
        /\ currentModal # NoModal
        /\ lastOp'.m # currentModal
        /\ Visible(Cur, currentModal))
        => UNCHANGED trapState]_vars

\* C27: the 5s clear timer of a submission does not clear a status message
\* that a later submission has set.
C27_TimerClearsOnlyItsOwnStatus ==
    [][(/\ formOp'.op = "timer"
        /\ statusText # ""
        /\ statusOwner > formOp'.id)
       => statusText' = statusText]_vars

\* C28: when a submit event has been handled while an earlier submission
\* was in flight, then once no submission is in flight the submit button is
\* enabled and shows the label it had before the first submission.
C28_ButtonRestoredAfterOverlap ==
    (overlapped /\ inFlight = << >>) => (~btnDisabled /\ btnLabel = "Send")

\* C29: every point of a rendered sparkline, one of a single value
\* included, has a finite x and a finite y, with x between the padding and
\* the canvas width less the padding.
C29_SparklinePointsWellDefined ==
    \A i \in 1..Len(sparkPoints) :
        /\ IsFinite(sparkPoints[i].x)
        /\ IsFinite(sparkPoints[i].y)
        /\ JsLeq(Num(SparkPadding), sparkPoints[i].x)
        /\ JsLeq(sparkPoints[i].x, Num(sparkCanvas.width - SparkPadding))

\* C30: every value a built card's markup takes from the project data is
\* the escapeHtml of that value, in text and in attribute positions alike.
C30_CardDataIsEscaped ==
    \A i \in 1..Len(cardMarkup) : cardMarkup[i].text = escapeHtml(cardMarkup[i].raw)

====
